---- MODULE Spec2Model ----
(***************************************************************************)
(* Model of the extraction core of llm_link:                               *)
(*   backend/llm_extractor.py  LLMExtractor  (orchestrator, oracle         *)
(*                             adapters, reply parser, rule engine,        *)
(*                             locator, context window, label table)       *)
(*                                                                         *)
(* Text is a sequence of one-character strings.  The characters that are   *)
(* not ASCII in the source are written by name:                            *)
(*   "LQ" = U+300A (opening title mark)   "RQ" = U+300B (closing mark)     *)
(*   "wan" = U+4E07   "yi" = U+4EBF   "yuan" = U+5143  (amount units)      *)
(* Offsets follow Python: a position p in 0..len(text) stands before the   *)
(* character text[p+1]; a match is [start, end) with end exclusive.        *)
(***************************************************************************)
EXTENDS Integers, Sequences, FiniteSets, TLC

----------------------------------------------------------------------------
(* Python string primitives                                                *)

Digit == {"0", "1", "2", "3", "4", "5", "6", "7", "8", "9"}
Whitespace == {" ", "\n", "\t"}
Units == {"wan", "yi", "yuan"}

\* text[p] of Python, "" past the end (no character equals "")
At(text, p) == IF 0 <= p /\ p < Len(text) THEN text[p + 1] ELSE ""

\* text[a:b] of Python for 0 <= a, b <= len(text)
Slice(text, a, b) == SubSeq(text, a + 1, b)

\* needle in hay
Contains(hay, needle) ==
    \E i \in 0..(Len(hay) - Len(needle)) : Slice(hay, i, i + Len(needle)) = needle

RECURSIVE LStripFrom(_, _)
LStripFrom(text, a) ==
    IF a < Len(text) /\ At(text, a) \in Whitespace THEN LStripFrom(text, a + 1) ELSE a

RECURSIVE RStripTo(_, _, _)
RStripTo(text, a, b) ==
    IF b > a /\ At(text, b - 1) \in Whitespace THEN RStripTo(text, a, b - 1) ELSE b

\* text.strip()
Strip(text) ==
    LET a == LStripFrom(text, 0)
        b == RStripTo(text, a, Len(text))
    IN  Slice(text, a, b)

RECURSIVE Join_NoSeparator(_)
\* variant: ''.join(parts)
Join_NoSeparator(parts) ==
    IF Len(parts) = 0 THEN <<>> ELSE parts[1] \o Join_NoSeparator(Tail(parts))

RECURSIVE Join(_)
\* ' '.join(parts)
Join(parts) ==
    IF Len(parts) = 0 THEN <<>>
    ELSE IF Len(parts) = 1 THEN parts[1]
    ELSE parts[1] \o <<" ">> \o Join(Tail(parts))

----------------------------------------------------------------------------
(* The four regular expressions of _extract_with_rules.  Each MatchEnd     *)
(* gives the exclusive end of the match that starts exactly at p, or -1.   *)
(* In all four patterns the character that must follow a repetition is     *)
(* outside the repeated class, so the greedy run is the only candidate     *)
(* and backtracking never finds another match at the same start.           *)

RECURSIVE SkipDigits(_, _)
\* \d+ (or \d*) taken greedily from p
SkipDigits(text, p) ==
    IF At(text, p) \in Digit THEN SkipDigits(text, p + 1) ELSE p

RECURSIVE SkipGroups(_, _)
\* (?:,\d{3})* taken greedily from p
SkipGroups(text, p) ==
    IF /\ At(text, p) = ","
       /\ At(text, p + 1) \in Digit
       /\ At(text, p + 2) \in Digit
       /\ At(text, p + 3) \in Digit
    THEN SkipGroups(text, p + 4)
    ELSE p

RECURSIVE FirstClose(_, _)
\* position of the first closing title mark at or after p, -1 if none
FirstClose(text, p) ==
    IF p >= Len(text) THEN -1
    ELSE IF At(text, p) = "RQ" THEN p
    ELSE FirstClose(text, p + 1)

\* r'\d+\.\d+%'
PercentEnd(text, p) ==
    LET a == SkipDigits(text, p)
        b == SkipDigits(text, a + 1)
    IN  IF a > p /\ At(text, a) = "." /\ b > a + 1 /\ At(text, b) = "%"
        THEN b + 1 ELSE -1

\* r'\d+(?:,\d{3})*(?:\.\d+)?(?:万|亿|元)'
AmountEnd(text, p) ==
    LET a == SkipDigits(text, p)
        b == SkipGroups(text, a)
        d == SkipDigits(text, b + 1)
    IN  IF a = p THEN -1
        ELSE IF At(text, b) = "."
             THEN IF d > b + 1 /\ At(text, d) \in Units THEN d + 1 ELSE -1
             ELSE IF At(text, b) \in Units THEN b + 1 ELSE -1

\* r'\d{6}'
CodeEnd(text, p) ==
    IF \A k \in 0..5 : At(text, p + k) \in Digit THEN p + 6 ELSE -1

\* variant: r'《([^》]*)》', which also matches an empty pair of marks
TitleEnd_EmptyPair(text, p) ==
    LET r == FirstClose(text, p + 1)
    IN  IF At(text, p) = "LQ" /\ r >= p + 1 THEN r + 1 ELSE -1

\* r'《([^》]+)》'
TitleEnd(text, p) ==
    LET r == FirstClose(text, p + 1)
    IN  IF At(text, p) = "LQ" /\ r > p + 1 THEN r + 1 ELSE -1

MatchEnd(pattern, text, p) ==
    CASE pattern = "percent" -> PercentEnd(text, p)
      [] pattern = "amount"  -> AmountEnd(text, p)
      [] pattern = "code"    -> CodeEnd(text, p)
      [] pattern = "title"   -> TitleEnd(text, p)

RECURSIVE FindIter(_, _, _)
\* re.finditer(pattern, text): the non-overlapping matches, left to right,
\* as [start, end) pairs, scanning from position pos: the leftmost start at
\* or after pos that matches, then on from the end of that match
FindIter(pattern, text, pos) ==
    LET starts == {p \in pos..(Len(text) - 1) : MatchEnd(pattern, text, p) >= 0}
    IN  IF starts = {} THEN <<>>
        ELSE LET s == CHOOSE p \in starts : \A q \in starts : p <= q
                 e == MatchEnd(pattern, text, s)
             IN  <<[start |-> s, end |-> e]>> \o FindIter(pattern, text, e)

----------------------------------------------------------------------------
(* Values of the Python/JSON data model that reach the extractor.  A value *)
(* is a record: t is its type, s its characters when it is a str.          *)

PyStr(chars) == [t |-> "str", s |-> chars]
PyNum == [t |-> "int", s |-> <<>>]
PyNull == [t |-> "NoneType", s |-> <<>>]

\* A call either returns (exc = "") or raises the named exception.
Returned(v) == [exc |-> "", val |-> v]
Raised(e) == [exc |-> e, val |-> <<>>]

Centroid(bbox) == <<(bbox.x0 + bbox.x1) \div 2, (bbox.y0 + bbox.y1) \div 2>>

\* variant: the scan keeps going and the last matching block wins
FindFrom_LastMatch(search_text, blocks, k) ==
    LET hits == {j \in k..Len(blocks) : Contains(blocks[j].text, search_text.s)}
    IN  IF k > Len(blocks) THEN Returned(<<0, 0>>)
        ELSE IF search_text.t # "str" THEN Raised("TypeError")
        ELSE IF hits = {} THEN Returned(<<0, 0>>)
        ELSE Returned(Centroid(blocks[CHOOSE j \in hits : \A h \in hits : h <= j].bbox))

RECURSIVE FindFrom(_, _, _)
\* the for loop of _find_text_position from block k on; `x in str` raises
\* TypeError when x is not a str
FindFrom(search_text, blocks, k) ==
    IF k > Len(blocks) THEN Returned(<<0, 0>>)
    ELSE IF search_text.t # "str" THEN Raised("TypeError")
    ELSE IF Contains(blocks[k].text, search_text.s)
         THEN Returned(Centroid(blocks[k].bbox))
         ELSE FindFrom(search_text, blocks, k + 1)

_find_text_position(search_text, page_data) ==
    FindFrom(search_text, page_data.text_blocks, 1)

context_length == 50

Max(a, b) == IF a >= b THEN a ELSE b
Min(a, b) == IF a <= b THEN a ELSE b

\* variant: the window is returned as sliced, without strip()
_get_context_NoStrip(text, start, end) ==
    LET context_start == Max(0, start - context_length)
        context_end == Min(Len(text), end + context_length)
    IN  Slice(text, context_start, context_end)

_get_context(text, start, end) ==
    LET context_start == Max(0, start - context_length)
        context_end == Min(Len(text), end + context_length)
    IN  Strip(Slice(text, context_start, context_end))

type_names ==
    [stock_name   |-> "Security Abbreviation",
     company_name |-> "Company Full Name",
     person_name  |-> "Person Name",
     numbers      |-> "Number",
     book_title   |-> "Book Title Content",
     proposal     |-> "Proposal/Motion Name"]

\* variant: an id outside the table gets a fixed label
_get_type_name_Unknown(query_type) ==
    IF query_type \in DOMAIN type_names THEN type_names[query_type] ELSE "Unknown"

\* type_names.get(query_type, query_type)
_get_type_name(query_type) ==
    IF query_type \in DOMAIN type_names THEN type_names[query_type] ELSE query_type

Item(type, value, context, page, position) ==
    [type |-> type, value |-> value, context |-> context,
     page |-> page, position |-> position]

----------------------------------------------------------------------------
(* Pattern Extractor                                                       *)

RECURSIVE RuleItems(_, _, _, _, _, _)
\* the body of `for match in matches:` over matches[k..]; the title pattern
\* takes group(1) (the text between the marks), the others group(0)
RuleItems(matches, k, pattern, text, page_number, page_data) ==
    IF k > Len(matches) THEN <<>>
    ELSE LET match == matches[k]
             value == IF pattern = "title"
                      THEN Slice(text, match.start + 1, match.end - 1)
                      ELSE Slice(text, match.start, match.end)
             context == _get_context(text, match.start, match.end)
             position == _find_text_position(PyStr(value), page_data).val
             type == IF pattern = "title" THEN "Book Title Content" ELSE "Number"
         IN  <<Item(type, PyStr(value), context, page_number, position)>>
             \o RuleItems(matches, k + 1, pattern, text, page_number, page_data)

PatternItems(pattern, text, page_number, page_data) ==
    RuleItems(FindIter(pattern, text, 0), 1, pattern, text, page_number, page_data)

\* variant: the six-digit codes are collected before the amounts
_extract_with_rules_CodeFirst(text, query_type, page_number, page_data) ==
    IF query_type = "book_title"
    THEN PatternItems("title", text, page_number, page_data)
    ELSE IF query_type = "numbers"
    THEN PatternItems("percent", text, page_number, page_data)
         \o PatternItems("code", text, page_number, page_data)
         \o PatternItems("amount", text, page_number, page_data)
    ELSE <<>>

\* variant: a category without rules is treated as numbers
_extract_with_rules_AnyCategory(text, query_type, page_number, page_data) ==
    IF query_type = "book_title"
    THEN PatternItems("title", text, page_number, page_data)
    ELSE PatternItems("percent", text, page_number, page_data)
         \o PatternItems("amount", text, page_number, page_data)
         \o PatternItems("code", text, page_number, page_data)

_extract_with_rules(text, query_type, page_number, page_data) ==
    IF query_type = "book_title"
    THEN PatternItems("title", text, page_number, page_data)
    ELSE IF query_type = "numbers"
    THEN PatternItems("percent", text, page_number, page_data)
         \o PatternItems("amount", text, page_number, page_data)
         \o PatternItems("code", text, page_number, page_data)
    ELSE <<>>

----------------------------------------------------------------------------
(* Oracle replies.  A reply text is a sequence of tokens [k, d]:           *)
(*   k = "[" "]" ","   the JSON punctuation the parser looks for           *)
(*   k = "prose"       text that is not JSON                               *)
(*   k = "obj"         a JSON object, d its keys of interest               *)
(*   k = "str" "int" "null"   other JSON scalars                           *)
(* d = [has_value, value, has_context, context] is what the parser reads   *)
(* of an object; the other tokens carry NoDict.                            *)

NoDict == [has_value |-> FALSE, value |-> PyNull, has_context |-> FALSE, context |-> <<>>]
Tok(k) == [k |-> k, d |-> NoDict]
Obj(d) == [k |-> "obj", d |-> d]
JsonScalar == {"obj", "str", "int", "null"}

RECURSIVE FirstTok(_, _, _)
\* index (0-based) of the first token of kind k at or after p, -1 if none
FirstTok(toks, k, p) ==
    IF p >= Len(toks) THEN -1
    ELSE IF toks[p + 1].k = k THEN p
    ELSE FirstTok(toks, k, p + 1)

RECURSIVE LastTok(_, _, _)
\* index (0-based) of the last token of kind k before p, -1 if none
LastTok(toks, k, p) ==
    IF p <= 0 THEN -1
    ELSE IF toks[p].k = k THEN p - 1
    ELSE LastTok(toks, k, p - 1)

\* re.search(r'\[.*\]', response_text, re.DOTALL): from the first "[" to the
\* last "]" after it; found = FALSE when there is no such pair
SearchArray(toks) ==
    LET i == FirstTok(toks, "[", 0)
        j == LastTok(toks, "]", Len(toks))
    IN  IF i >= 0 /\ j > i
        THEN [found |-> TRUE, str |-> Slice(toks, i, j + 1)]
        ELSE [found |-> FALSE, str |-> <<>>]

NoParse == [ok |-> FALSE, next |-> 0, list |-> FALSE, elems |-> <<>>, v |-> Tok("null")]

RECURSIVE ParseValue(_, _)
RECURSIVE ParseElems(_, _)
\* one JSON value starting at p: a scalar token, or "[" elements "]"
ParseValue(toks, p) ==
    IF p >= Len(toks) THEN NoParse
    ELSE IF toks[p + 1].k \in JsonScalar
    THEN [ok |-> TRUE, next |-> p + 1, list |-> FALSE, elems |-> <<>>, v |-> toks[p + 1]]
    ELSE IF toks[p + 1].k = "["
    THEN IF p + 1 < Len(toks) /\ toks[p + 2].k = "]"
         THEN [ok |-> TRUE, next |-> p + 2, list |-> TRUE, elems |-> <<>>, v |-> Tok("list")]
         ELSE LET r == ParseElems(toks, p + 1)
              IN  [r EXCEPT !.list = TRUE, !.v = Tok("list")]
    ELSE NoParse

\* value ("," value)* "]" starting at p
ParseElems(toks, p) ==
    LET first == ParseValue(toks, p)
    IN  IF ~first.ok \/ first.next >= Len(toks) THEN NoParse
        ELSE IF toks[first.next + 1].k = "]"
        THEN [ok |-> TRUE, next |-> first.next + 1, list |-> TRUE,
              elems |-> <<first.v>>, v |-> Tok("list")]
        ELSE IF toks[first.next + 1].k = ","
        THEN LET rest == ParseElems(toks, first.next + 1)
             IN  IF rest.ok THEN [rest EXCEPT !.elems = <<first.v>> \o rest.elems]
                 ELSE NoParse
        ELSE NoParse

\* json.loads(str): the whole text must be one JSON value
json_loads(toks) ==
    LET r == ParseValue(toks, 0)
    IN  IF r.ok /\ r.next = Len(toks) THEN r ELSE NoParse

RECURSIVE ParseLoop(_, _, _, _, _)
\* `for item in extracted_data:` over elems[k..]; a raise inside the loop
\* abandons the results gathered so far
ParseLoop(elems, k, query_type, page_number, page_data) ==
    IF k > Len(elems) THEN Returned(<<>>)
    ELSE LET item == elems[k]
             rest == ParseLoop(elems, k + 1, query_type, page_number, page_data)
         IN  IF item.k = "obj" /\ item.d.has_value
             THEN LET position == _find_text_position(item.d.value, page_data)
                      result == Item(_get_type_name(query_type), item.d.value,
                                     IF item.d.has_context THEN item.d.context ELSE <<>>,
                                     page_number, position.val)
                  IN  IF position.exc # "" THEN position
                      ELSE IF rest.exc # "" THEN rest
                      ELSE Returned(<<result>> \o rest.val)
             ELSE rest

_parse_llm_response(response_text, query_type, page_number, page_data) ==
    LET json_match == SearchArray(response_text)
        extracted_data == IF json_match.found THEN json_loads(json_match.str)
                          ELSE json_loads(response_text)
        looped == IF ~extracted_data.ok THEN Raised("JSONDecodeError")
                  ELSE IF extracted_data.list
                  THEN ParseLoop(extracted_data.elems, 1, query_type, page_number, page_data)
                  ELSE IF extracted_data.v.k \in {"int", "null"}
                  THEN Raised("TypeError")
                  ELSE Returned(<<>>)
    IN  IF looped.exc = "" THEN looped.val ELSE <<>>

----------------------------------------------------------------------------
(* Oracle adapters.  `outcome` is what the backend does on this call:      *)
(*   kind = "raises"   anything that raises inside the adapter's try:      *)
(*                     network failure, timeout, a response without        *)
(*                     choices[0].message.content                          *)
(*   kind = "non200"   DeepSeek answers with a status other than 200       *)
(*   kind = "reply"    the response carries the reply text `text`          *)
(*   kind = "none"     no backend is involved (rule provider)              *)
(* Each adapter returns the items together with the number of backend      *)
(* calls and rule-engine runs it made.                                     *)

Done(items, backend, rules) == [items |-> items, backend |-> backend, rules |-> rules]

\* variant: one retry of the backend before falling back
_extract_with_openai_Retry(text, query_type, page_number, page_data, outcome) ==
    IF outcome.kind = "reply"
    THEN Done(_parse_llm_response(outcome.text, query_type, page_number, page_data), 1, 0)
    ELSE Done(_extract_with_rules(text, query_type, page_number, page_data), 2, 1)

_extract_with_openai(text, query_type, page_number, page_data, outcome) ==
    IF outcome.kind = "reply"
    THEN Done(_parse_llm_response(outcome.text, query_type, page_number, page_data), 1, 0)
    ELSE Done(_extract_with_rules(text, query_type, page_number, page_data), 1, 1)

\* variant: a failed call yields nothing instead of the rule items
_extract_with_deepseek_NoFallback(text, query_type, page_number, page_data, outcome) ==
    IF outcome.kind = "reply"
    THEN Done(_parse_llm_response(outcome.text, query_type, page_number, page_data), 1, 0)
    ELSE Done(<<>>, 1, 0)

_extract_with_deepseek(text, query_type, page_number, page_data, outcome) ==
    IF outcome.kind = "reply"
    THEN Done(_parse_llm_response(outcome.text, query_type, page_number, page_data), 1, 0)
    ELSE Done(_extract_with_rules(text, query_type, page_number, page_data), 1, 1)

\* variant: provider 'claude' is sent to the backend too
_extract_by_type_ClaudeAdapter(LLM_PROVIDER, text, query_type, page_number, page_data, outcome) ==
    IF LLM_PROVIDER \in {"openai", "claude"}
    THEN _extract_with_openai(text, query_type, page_number, page_data, outcome)
    ELSE IF LLM_PROVIDER = "deepseek"
    THEN _extract_with_deepseek(text, query_type, page_number, page_data, outcome)
    ELSE Done(_extract_with_rules(text, query_type, page_number, page_data), 0, 1)

_extract_by_type(LLM_PROVIDER, text, query_type, page_number, page_data, outcome) ==
    IF LLM_PROVIDER = "openai"
    THEN _extract_with_openai(text, query_type, page_number, page_data, outcome)
    ELSE IF LLM_PROVIDER = "deepseek"
    THEN _extract_with_deepseek(text, query_type, page_number, page_data, outcome)
    ELSE Done(_extract_with_rules(text, query_type, page_number, page_data), 0, 1)

\* what the backend of each provider can do on one call
Outcomes(LLM_PROVIDER, Replies) ==
    LET failures == IF LLM_PROVIDER = "openai" THEN {"raises"}
                    ELSE IF LLM_PROVIDER = "deepseek" THEN {"raises", "non200"}
                    ELSE {}
    IN  IF LLM_PROVIDER \in {"openai", "deepseek"}
        THEN {[kind |-> k, text |-> <<>>] : k \in failures}
             \cup {[kind |-> "reply", text |-> r] : r \in Replies}
        ELSE {[kind |-> "none", text |-> <<>>]}

----------------------------------------------------------------------------
(* Inputs                                                                  *)

MaxPages == 2

Providers == {"openai", "deepseek", "claude", "local"}

\* bounding boxes (x0 <= x1, y0 <= y1, even sums so that /2 is exact): the one
\* of tests/test_system.py, one in the page's corner, and an empty box at the
\* origin
BBoxTest == [x0 |-> 100, y0 |-> 200, x1 |-> 300, y1 |-> 220]
BBoxCorner == [x0 |-> 0, y0 |-> 0, x1 |-> 50, y1 |-> 20]
BBoxOrigin == [x0 |-> 0, y0 |-> 0, x1 |-> 0, y1 |-> 0]

Block(text, bbox) == [text |-> text, bbox |-> bbox]

RECURSIVE Texts(_)
Texts(blocks) == IF blocks = <<>> THEN <<>> ELSE <<Head(blocks).text>> \o Texts(Tail(blocks))

\* page_info of extract_text_with_positions: page_number, text_blocks and
\* full_text = ' '.join(full_text_parts)
Page(page_number, blocks) ==
    [page_number |-> page_number, text_blocks |-> blocks, full_text |-> Join(Texts(blocks))]

\* text_blocks of the pages.  extract_information takes any pages_data its
\* caller builds (PDFProcessor, or by hand as tests/test_system.py does):
\* a page without blocks, a page whose text is a single space, a page of
\* numbers with the same percentage in two blocks and a seven-digit run,
\* and a page with a title, an empty pair of marks and an amount.
BlocksEmpty == <<>>
BlocksSpace == <<Block(<<" ">>, BBoxCorner)>>
BlocksNumbers ==
    <<Block(<<"u", "p", " ", "1", "5", ".", "5", "%">>, BBoxCorner),
      Block(<<"1", "5", ".", "5", "%">>, BBoxTest),
      Block(<<"1", "2", "3", "4", "5", "6", "7">>, BBoxTest)>>
BlocksTitle ==
    <<Block(<<"LQ", "A", "RQ", "LQ", "RQ">>, BBoxOrigin),
      Block(<<"6", "0", "1", "9", "3", "9", "yuan">>, BBoxTest)>>

BlockPool == {BlocksEmpty, BlocksSpace, BlocksNumbers, BlocksTitle}

RECURSIVE Number(_, _)
\* pages numbered from 1 in document order
Number(blockss, n) ==
    IF blockss = <<>> THEN <<>>
    ELSE <<Page(n, Head(blockss))>> \o Number(Tail(blockss), n + 1)

Documents == {Number(bs, 1) : bs \in UNION {[1..n -> BlockPool] : n \in 0..MaxPages}}

QueryLists ==
    {<<>>, <<"numbers">>, <<"book_title", "numbers">>, <<"stock_name", "bond_name">>}

\* Page texts for the Pattern Extractor: every text of up to MaxTextLen
\* characters over the characters the four patterns look at, and longer
\* texts: an amount whose digits are also a six-digit code, one match of
\* each class, digit groups with and without a valid separator, two
\* titles around an empty pair of marks, and a text longer than two
\* context windows with a space at both window edges.
MaxTextLen == 3

RuleAlphabet == {"1", ".", "%", "yuan", "LQ", "RQ"}

Pad(c, n) == [i \in 1..n |-> c]

TextCodeAmount == <<"6", "0", "1", "9", "3", "9", "yuan">>
TextClasses ==
    <<"0", "0", "0", "0", "0", "1", " ", "1", ",", "2", "3", "4", ".", "5", "wan",
      " ", "1", "2", ".", "5", "%">>
TextGroups == <<"1", "2", ",", "3", "4", "yi", " ", "7", ",", "0", "0", "0", "yuan">>
TextTitles == <<"LQ", "A", "B", "RQ", "LQ", "RQ", "LQ", "LQ", "C", "RQ", "RQ">>
TextLong ==
    <<"x", " ">> \o Pad("a", 49) \o <<"1", "5", ".", "5", "%">>
        \o Pad("a", 49) \o <<" ", "x">>

RuleTexts ==
    UNION {[1..n -> RuleAlphabet] : n \in 0..MaxTextLen}
        \cup {TextCodeAmount, TextClasses, TextGroups, TextTitles, TextLong}

\* a page holding one span with the given text; no span when it is empty
RulePage(text) ==
    Page(1, IF text = <<>> THEN <<>> ELSE <<Block(text, BBoxTest)>>)

\* the six registered categories and one id outside the registry
Categories ==
    {"stock_name", "company_name", "person_name", "numbers", "book_title", "proposal",
     "bond_name"}

GoodDict(chars) ==
    [has_value |-> TRUE, value |-> PyStr(chars), has_context |-> TRUE, context |-> <<"c">>]
BareDict(v) ==
    [has_value |-> TRUE, value |-> v, has_context |-> FALSE, context |-> <<>>]

ReplyGood ==
    <<Tok("prose"), Tok("["), Obj(GoodDict(<<"1", "5", ".", "5", "%">>)), Tok(","),
      Obj(NoDict), Tok(","), Obj(BareDict(PyStr(<<"A">>))), Tok("]")>>
\* the replies of the multi-page specification; PairSpec runs every shape
ReplyPool == {ReplyGood}

\* Replies built from array elements: up to MaxElems elements, wrapped in
\* every shape the parser distinguishes.
MaxElems == 2

Elements ==
    {Obj(GoodDict(<<"A">>)), Obj(BareDict(PyStr(<<"1", "5", ".", "5", "%">>))),
     Obj(BareDict(PyStr(<<"Z">>))), Obj(NoDict), Obj(BareDict(PyNum)),
     Obj(BareDict(PyStr(<<>>))), Tok("int")}

RECURSIVE CommaJoin(_)
CommaJoin(elems) ==
    IF Len(elems) = 0 THEN <<>>
    ELSE IF Len(elems) = 1 THEN <<elems[1]>>
    ELSE <<elems[1], Tok(",")>> \o CommaJoin(Tail(elems))

ElementLists == UNION {[1..n -> Elements] : n \in 0..MaxElems}

ReplyShapes(body) ==
    {<<Tok("[")>> \o body \o <<Tok("]")>>,
     <<Tok("prose"), Tok("[")>> \o body \o <<Tok("]"), Tok("prose")>>,
     <<Tok("["), Tok("[")>> \o body \o <<Tok("]"), Tok("]")>>,
     <<Tok("[")>> \o body \o <<Tok(","), Tok("]")>>,
     <<Tok("[")>> \o body \o <<Tok("]"), Tok("prose"), Tok("["), Tok("]")>>,
     <<Tok("[")>> \o body,
     <<Tok("prose")>> \o body}

RichReplies == UNION {ReplyShapes(CommaJoin(es)) : es \in ElementLists}

----------------------------------------------------------------------------
(* PDFProcessor.  A document as fitz hands it over: a sequence of pages,   *)
(* each page the blocks of page.get_text("dict"); a block is an image      *)
(* (no 'lines') or text, its lines sequences of spans [text, bbox].        *)
(* `fault` is where the library raises while the document is read:         *)
(*   at = "none"    nowhere                                                *)
(*   at = "open"    in fitz.open (missing or unreadable file)              *)
(*   at = "page"    in load_page / get_text of page number `page`          *)
(*   at = "close"   in doc.close()                                         *)

Span(text, bbox) == [text |-> text, bbox |-> bbox]
TextBlock(lines) == [has_lines |-> TRUE, lines |-> lines]
ImageBlock == [has_lines |-> FALSE, lines |-> <<>>]

RECURSIVE StoredOfSpans_KeepEmpty(_)
\* variant: without `if text:`, every span is stored
StoredOfSpans_KeepEmpty(spans) ==
    IF spans = <<>> THEN <<>>
    ELSE <<Block(Strip(Head(spans).text), Head(spans).bbox)>>
             \o StoredOfSpans_KeepEmpty(Tail(spans))

RECURSIVE StoredOfSpans(_)
\* `for span in line['spans']:` a span is stored with its stripped text when
\* that text is not empty
StoredOfSpans(spans) ==
    IF spans = <<>> THEN <<>>
    ELSE LET text == Strip(Head(spans).text)
         IN  (IF text # <<>> THEN <<Block(text, Head(spans).bbox)>> ELSE <<>>)
                 \o StoredOfSpans(Tail(spans))

RECURSIVE StoredOfLines(_)
\* `for line in block['lines']:`
StoredOfLines(lines) ==
    IF lines = <<>> THEN <<>>
    ELSE StoredOfSpans(Head(lines)) \o StoredOfLines(Tail(lines))

RECURSIVE StoredOfBlocks(_)
\* `for block in text_blocks['blocks']: if 'lines' in block:`
StoredOfBlocks(blocks) ==
    IF blocks = <<>> THEN <<>>
    ELSE (IF Head(blocks).has_lines THEN StoredOfLines(Head(blocks).lines) ELSE <<>>)
             \o StoredOfBlocks(Tail(blocks))

\* variant: the page number is the 0-based index of the page
page_info_ZeroBased(page_num, blocks) == Page(page_num, StoredOfBlocks(blocks))

\* page_info of the page at 0-based index page_num
page_info(page_num, blocks) == Page(page_num + 1, StoredOfBlocks(blocks))

RECURSIVE PagesFrom(_, _)
\* `for page_num in range(len(doc)):` from page_num on
PagesFrom(doc, page_num) ==
    IF page_num >= Len(doc) THEN <<>>
    ELSE <<page_info(page_num, doc[page_num + 1])>> \o PagesFrom(doc, page_num + 1)

NoFault == [at |-> "none", page |-> 0]

\* the state of a PDFProcessor after __init__
NoDoc == [is_none |-> TRUE, doc |-> <<>>]
Opened(doc) == [is_none |-> FALSE, doc |-> doc]
PDFProcessor == [current_doc |-> NoDoc, pages_data |-> <<>>]

\* extract_text_with_positions: the processor after the call, and what the
\* call returns or raises
extract_text_with_positions(self, doc, fault) ==
    LET pages == PagesFrom(doc, 0)
        opened == [self EXCEPT !.current_doc = Opened(doc)]
        stored == [opened EXCEPT !.pages_data = pages]
    IN  IF fault.at = "open"
        THEN [self |-> self, exc |-> "Exception", val |-> <<>>]
        ELSE IF fault.at = "page" /\ fault.page <= Len(doc)
        THEN [self |-> opened, exc |-> "Exception", val |-> <<>>]
        ELSE IF fault.at = "close"
        THEN [self |-> stored, exc |-> "Exception", val |-> <<>>]
        ELSE [self |-> stored, exc |-> "", val |-> pages]

\* str.lower() over the characters of the model.  "SIGMA" is U+03A3, "sigma"
\* U+03C3 and "fsigma" U+03C2: Python lowers a capital sigma to the final
\* form when a cased letter stands before it and none after it, characters
\* that are case-ignorable being skipped on both sides.  No character of the
\* model changes the length of the text when lowered.
CaseIgnorable == {".", "'"}
Cased == {"a", "b", "p", "u", "x", "A", "B", "SIGMA", "sigma", "fsigma"}

LowerChar(c) ==
    CASE c = "A" -> "a"
      [] c = "B" -> "b"
      [] c = "SIGMA" -> "sigma"
      [] OTHER -> c

\* the final-sigma condition for the character at position i
FinalSigma(text, i) ==
    LET before == {j \in 0..(i - 1) : At(text, j) \notin CaseIgnorable}
        after == {j \in (i + 1)..(Len(text) - 1) : At(text, j) \notin CaseIgnorable}
    IN  /\ before # {}
        /\ At(text, CHOOSE j \in before : \A k \in before : k <= j) \in Cased
        /\ \/ after = {}
           \/ At(text, CHOOSE j \in after : \A k \in after : j <= k) \notin Cased

Lower(text) ==
    [i \in 1..Len(text) |->
        IF text[i] = "SIGMA"
        THEN IF FinalSigma(text, i - 1) THEN "fsigma" ELSE "sigma"
        ELSE LowerChar(text[i])]

\* an entry of the list search_text_positions returns
SearchResult(page_number, text_block) ==
    [page |-> page_number, text |-> text_block.text,
     position |-> [x |-> (text_block.bbox.x0 + text_block.bbox.x1) \div 2,
                   y |-> (text_block.bbox.y0 + text_block.bbox.y1) \div 2],
     bbox |-> text_block.bbox]

RECURSIVE SearchBlocks(_, _, _, _)
\* `for text_block in page_data['text_blocks']:` from the k-th block on
SearchBlocks(search_text, page_number, text_blocks, k) ==
    IF k > Len(text_blocks) THEN <<>>
    ELSE (IF Contains(Lower(text_blocks[k].text), Lower(search_text))
          THEN <<SearchResult(page_number, text_blocks[k])>> ELSE <<>>)
             \o SearchBlocks(search_text, page_number, text_blocks, k + 1)

RECURSIVE SearchPages(_, _, _)
\* `for page_data in self.pages_data:` from the k-th page on
SearchPages(search_text, pages, k) ==
    IF k > Len(pages) THEN <<>>
    ELSE SearchBlocks(search_text, pages[k].page_number, pages[k].text_blocks, 1)
             \o SearchPages(search_text, pages, k + 1)

search_text_positions(self, search_text) == SearchPages(search_text, self.pages_data, 1)

get_text_by_page(self, page_number) ==
    IF self.pages_data = <<>> \/ page_number < 1 \/ page_number > Len(self.pages_data)
    THEN <<>>
    ELSE self.pages_data[page_number].full_text

Abs(x) == IF x < 0 THEN -x ELSE x

\* the default of the parameter context_range
context_range == 100

\* variant: the bound of the range is exclusive
InRange_Exclusive(bbox, target_bbox, radius) ==
    Abs((bbox.y0 + bbox.y1) - (target_bbox.y0 + target_bbox.y1)) < 2 * radius

\* abs(block_y - target_y) <= context_range, both centroids being half of
\* a sum of two coordinates: compared doubled, which is exact
InRange(bbox, target_bbox, radius) ==
    Abs((bbox.y0 + bbox.y1) - (target_bbox.y0 + target_bbox.y1)) <= 2 * radius

RECURSIVE ContextTexts(_, _, _, _)
\* context_texts after `for text_block in page_data['text_blocks']:` from
\* the k-th block on
ContextTexts(text_blocks, target_bbox, radius, k) ==
    IF k > Len(text_blocks) THEN <<>>
    ELSE (IF InRange(text_blocks[k].bbox, target_bbox, radius)
          THEN <<text_blocks[k].text>> ELSE <<>>)
             \o ContextTexts(text_blocks, target_bbox, radius, k + 1)

get_context_around_position(self, page_number, target_bbox, radius) ==
    IF page_number < 1 \/ page_number > Len(self.pages_data) THEN <<>>
    ELSE Join(ContextTexts(self.pages_data[page_number].text_blocks, target_bbox, radius, 1))

\* Documents for the processor.  Spans as fitz reports them: text with
\* surrounding blanks, only blanks, no text; pages without blocks, with an
\* image only, with blank spans only, with numbers over two text blocks
\* and an image, and with a title.
RawA == Span(<<" ", "A", " ">>, BBoxCorner)
RawBlank == Span(<<" ">>, BBoxCorner)
RawEmpty == Span(<<>>, BBoxCorner)
RawPercent == Span(<<"1", "5", ".", "5", "%">>, BBoxTest)
RawAmount == Span(<<"6", "0", "1", "9", "3", "9", "yuan", "\n">>, BBoxTest)
RawTitle == Span(<<"LQ", "A", " ", "B", "RQ">>, BBoxOrigin)

RawPageEmpty == <<>>
RawPageImage == <<ImageBlock>>
RawPageBlank == <<TextBlock(<<<<RawBlank, RawEmpty>>>>)>>
RawPageNumbers ==
    <<TextBlock(<<<<RawA, RawBlank, RawPercent>>, <<RawAmount>>>>), ImageBlock,
      TextBlock(<<<<RawPercent>>>>)>>
RawPageTitle == <<TextBlock(<<<<RawTitle>>, <<>>>>)>>

RawDocs ==
    {<<RawPageNumbers>>,
     <<RawPageImage, RawPageTitle>>,
     <<RawPageBlank, RawPageNumbers, RawPageEmpty, RawPageTitle>>}

Faults(doc) ==
    {NoFault, [at |-> "open", page |-> 0], [at |-> "close", page |-> 0]}
        \cup {[at |-> "page", page |-> k] : k \in 1..Len(doc)}

ApiQueryLists == {<<>>, <<"numbers">>, <<"book_title", "numbers">>}

\* the requests to /api/extract: without a JSON body, naming a file that
\* does not exist, and naming an uploaded document
Requests ==
    {[has_json |-> FALSE, file_exists |-> FALSE, query_types |-> <<>>, doc |-> <<>>,
      fault |-> NoFault]}
    \cup {[has_json |-> TRUE, file_exists |-> FALSE, query_types |-> q, doc |-> <<>>,
          fault |-> NoFault] : q \in ApiQueryLists}
    \cup UNION {{[has_json |-> TRUE, file_exists |-> TRUE, query_types |-> q, doc |-> d,
                  fault |-> f] : q \in ApiQueryLists, f \in Faults(d)} : d \in RawDocs}

\* Documents for the queries: spans in both cases, a span that ends in a
\* capital sigma and one that begins with it, two runs of three digits in
\* neighbouring spans, an amount whose first digit group ends a span, and boxes whose vertical centres are 10, 110 and 210.
BBoxMid == [x0 |-> 100, y0 |-> 100, x1 |-> 300, y1 |-> 120]
BBoxOdd == [x0 |-> 0, y0 |-> 0, x1 |-> 50, y1 |-> 19]

RawUpper == Span(<<"A", "B">>, BBoxCorner)
RawLower == Span(<<"a", "b", " ", "x">>, BBoxMid)
RawSigmaEnd == Span(<<"A", "SIGMA">>, BBoxTest)
RawSigmaStart == Span(<<"SIGMA", "a">>, BBoxMid)
RawDigitsLeft == Span(<<"1", "2", "3">>, BBoxCorner)
RawDigitsRight == Span(<<"4", "5", "6">>, BBoxMid)
RawGroupLeft == Span(<<"1", ",">>, BBoxCorner)
RawGroupRight == Span(<<"2", "3", "4", "yuan">>, BBoxMid)

RawPageCases ==
    <<TextBlock(<<<<RawUpper, RawLower>>, <<RawSigmaEnd>>>>), TextBlock(<<<<RawSigmaStart>>>>)>>
RawPageDigits ==
    <<TextBlock(<<<<RawDigitsLeft, RawDigitsRight, RawPercent>>, <<RawAmount>>>>),
      TextBlock(<<<<RawGroupLeft, RawGroupRight>>>>)>>

QueryDocs ==
    {<<RawPageNumbers>>,
     <<RawPageCases, RawPageDigits>>,
     <<RawPageBlank, RawPageTitle, RawPageCases>>}

SearchTexts ==
    {<<>>, <<"a", "b">>, <<"A", "B">>, <<"SIGMA">>, <<"sigma">>, <<"1", "5">>, <<"z">>}

\* page numbers asked for: below 1, stored, and past every document
QueryPages == (-1)..4
TargetBoxes == {BBoxCorner, BBoxTest, BBoxOdd}
Radii == {0, context_range}
QueryCategories == {"numbers", "book_title", "stock_name"}
QueryLists2 == {<<"numbers">>, <<"book_title", "numbers">>}

----------------------------------------------------------------------------
(* extract_information as a state machine: one step per loop iteration.    *)

VARIABLES
    pages_data,     \* the document handed to extract_information
    query_types,    \* the requested categories, in request order
    LLM_PROVIDER,   \* config.LLM_PROVIDER
    pc,             \* "loop" while the loops run, "done" after the return
    pi,             \* index of the current page_data in pages_data
    qi,             \* index of the current query_type in query_types
    all_extracted,  \* the result list
    calls,          \* history: one record per _extract_by_type call
    request,        \* the /api/extract request being handled
    pdf_processor,  \* the PDFProcessor of app.py: current_doc, pages_data
    response,       \* the response to the request
    query,          \* the last direct call of a processor or extractor method
    memo,           \* an earlier _extract_with_rules call: arguments and result
    threads,        \* the requests in flight in the threaded server, by thread
    local_llm_manager,  \* the LocalLLMManager: model, tokenizer, model_loaded
    local_call      \* the last call of a LocalLLMManager method and its outcome

api == <<request, pdf_processor, response>>

\* what the request pipeline never touches
rest == <<query, memo, threads, local_llm_manager, local_call>>

vars == <<pages_data, query_types, LLM_PROVIDER, pc, pi, qi, all_extracted, calls, api, rest>>

\* a direct call: the method, its arguments (those it has) and what it returned
NoQuery ==
    [op |-> "none", page |-> 0, category |-> "", text |-> <<>>, bbox |-> BBoxOrigin,
     radius |-> 0, page_data |-> Page(0, <<>>), exc |-> "", result |-> <<>>]
NoMemo ==
    [op |-> "none", category |-> "", text |-> <<>>, page_data |-> Page(0, <<>>),
     result |-> <<>>, between |-> FALSE]
NoThreads == <<>>

\* the state of a LocalLLMManager after __init__
LocalLLMManager == [model |-> "None", tokenizer |-> "None", model_loaded |-> FALSE]
\* a call of a LocalLLMManager method: the manager before it, its argument,
\* what the libraries did during it, what it returned or raised, and
\* whether it reached the model
NoLocalCall ==
    [op |-> "none", before |-> LocalLLMManager, model_name |-> "None", fault |-> "none",
     outcome |-> [kind |-> "none", text |-> <<>>], exc |-> "", result |-> <<>>,
     invoked |-> FALSE]

\* no direct call, no concurrent request and no local model is involved
Apart ==
    /\ query = NoQuery
    /\ memo = NoMemo
    /\ threads = NoThreads
    /\ local_llm_manager = LocalLLMManager
    /\ local_call = NoLocalCall

NoRequest ==
    [has_json |-> FALSE, file_exists |-> FALSE, query_types |-> <<>>, doc |-> <<>>,
     fault |-> NoFault]

NoResponse ==
    [status |-> 0, keys |-> {}, extracted_info |-> <<>>, total_items |-> 0, error |-> ""]

\* the extractor called directly, as tests/test_system.py does: no request
Standalone ==
    /\ request = NoRequest
    /\ pdf_processor = PDFProcessor
    /\ response = NoResponse

Start ==
    /\ pc = "loop"
    /\ pi = 1
    /\ qi = 1
    /\ all_extracted = <<>>
    /\ calls = <<>>
    /\ Standalone
    /\ Apart

Init ==
    /\ pages_data \in Documents
    /\ query_types \in QueryLists
    /\ LLM_PROVIDER \in Providers
    /\ Start

\* variant: the new items are put in front of the list
Extend_AtFront(list, extracted_items) == extracted_items \o list

\* all_extracted.extend(extracted_items)
Extend(list, extracted_items) == list \o extracted_items

\* variant: the emptiness test without strip()
Blank_NoStrip(page_data) == page_data.full_text = <<>>

\* not page_text.strip()
Blank(page_data) == Strip(page_data.full_text) = <<>>

\* `if not page_text.strip(): continue`
SkipBlankPage ==
    /\ pc = "loop"
    /\ pi <= Len(pages_data)
    /\ Blank(pages_data[pi])
    /\ pi' = pi + 1
    /\ UNCHANGED <<pages_data, query_types, LLM_PROVIDER, pc, qi, all_extracted, calls, api, rest>>

\* one iteration of `for query_type in query_types:`
ExtractStep(Replies) ==
    /\ pc = "loop"
    /\ pi <= Len(pages_data)
    /\ ~Blank(pages_data[pi])
    /\ qi <= Len(query_types)
    /\ \E outcome \in Outcomes(LLM_PROVIDER, Replies) :
         LET page_data == pages_data[pi]
             r == _extract_by_type(LLM_PROVIDER, page_data.full_text, query_types[qi],
                                   page_data.page_number, page_data, outcome)
         IN  /\ all_extracted' = Extend(all_extracted, r.items)
             /\ calls' = Append(calls, [pi |-> pi, qi |-> qi, outcome |-> outcome,
                                        items |-> r.items, backend |-> r.backend,
                                        rules |-> r.rules])
    /\ qi' = qi + 1
    /\ UNCHANGED <<pages_data, query_types, LLM_PROVIDER, pc, pi, api, rest>>

\* the inner loop is exhausted: next page_data
NextPage ==
    /\ pc = "loop"
    /\ pi <= Len(pages_data)
    /\ ~Blank(pages_data[pi])
    /\ qi > Len(query_types)
    /\ pi' = pi + 1
    /\ qi' = 1
    /\ UNCHANGED <<pages_data, query_types, LLM_PROVIDER, pc, all_extracted, calls, api, rest>>

\* return all_extracted
Return ==
    /\ pc = "loop"
    /\ pi > Len(pages_data)
    /\ pc' = "done"
    /\ UNCHANGED <<pages_data, query_types, LLM_PROVIDER, pi, qi, all_extracted, calls, api, rest>>

Next ==
    \/ SkipBlankPage
    \/ ExtractStep(ReplyPool)
    \/ NextPage
    \/ Return

Spec == Init /\ [][Next]_vars

\* One page, one category, every reply shape: the behaviour of a single
\* _extract_by_type call inside extract_information.
InitPair ==
    /\ pages_data \in {Number(<<b>>, 1) : b \in BlockPool}
    /\ query_types \in {<<"numbers">>, <<"book_title">>, <<"stock_name">>}
    /\ LLM_PROVIDER \in Providers
    /\ Start

NextPair ==
    \/ SkipBlankPage
    \/ ExtractStep(RichReplies)
    \/ NextPage
    \/ Return

PairSpec == InitPair /\ [][NextPair]_vars

\* One page, one category, no oracle: the Pattern Extractor alone, as
\* extract_information runs it under a provider without an adapter.
InitRules ==
    /\ pages_data \in {<<RulePage(text)>> : text \in RuleTexts}
    /\ query_types \in {<<c>> : c \in Categories}
    /\ LLM_PROVIDER = "local"
    /\ Start

RulesSpec == InitRules /\ [][Next]_vars

----------------------------------------------------------------------------
(* /api/extract of app.py: the handler around the processor and the        *)
(* extractor.  pc is "idle" before the first request, "request" once one   *)
(* is received, "loop" and "done" inside and after extract_information,    *)
(* "responded" when the response is sent.                                  *)

\* jsonify({'success': True, 'extracted_info': ..., 'total_items': ...})
jsonify_success(extracted_info) ==
    [status |-> 200, keys |-> {"success", "extracted_info", "total_items"},
     extracted_info |-> extracted_info, total_items |-> Len(extracted_info), error |-> ""]

\* jsonify({'error': ...}), status
jsonify_error(status, error) ==
    [status |-> status, keys |-> {"error"}, extracted_info |-> <<>>, total_items |-> 0,
     error |-> error]

Fresh ==
    /\ pages_data = <<>>
    /\ query_types = <<>>
    /\ pi = 1
    /\ qi = 1
    /\ all_extracted = <<>>
    /\ calls = <<>>

InitApi ==
    /\ pc = "idle"
    /\ LLM_PROVIDER \in Providers
    /\ Fresh
    /\ Standalone
    /\ Apart

\* a POST to /api/extract arrives
Receive ==
    /\ pc \in {"idle", "responded"}
    /\ request' \in Requests
    /\ response' = NoResponse
    /\ pc' = "request"
    /\ pages_data' = <<>>
    /\ query_types' = <<>>
    /\ pi' = 1
    /\ qi' = 1
    /\ all_extracted' = <<>>
    /\ calls' = <<>>
    /\ UNCHANGED <<LLM_PROVIDER, pdf_processor, rest>>

Answer(r) ==
    /\ response' = r
    /\ pc' = "responded"
    /\ UNCHANGED <<pages_data, query_types, LLM_PROVIDER, pi, qi, all_extracted, calls,
                   request, rest>>

\* request.get_json() gives None: data.get raises, the except answers 500
NoBody ==
    /\ pc = "request"
    /\ ~request.has_json
    /\ Answer(jsonify_error(500, "Information extraction failed"))
    /\ UNCHANGED pdf_processor

\* `if not filepath or not os.path.exists(filepath)`
FileNotFound ==
    /\ pc = "request"
    /\ request.has_json
    /\ ~request.file_exists
    /\ Answer(jsonify_error(400, "File not found"))
    /\ UNCHANGED pdf_processor

\* `if not query_types`
NoQueryTypes ==
    /\ pc = "request"
    /\ request.has_json
    /\ request.file_exists
    /\ request.query_types = <<>>
    /\ Answer(jsonify_error(400, "Please specify query types"))
    /\ UNCHANGED pdf_processor

Accepted ==
    /\ pc = "request"
    /\ request.has_json
    /\ request.file_exists
    /\ request.query_types # <<>>

\* pdf_processor.extract_text_with_positions(filepath) raises
ParseFails ==
    /\ Accepted
    /\ LET r == extract_text_with_positions(pdf_processor, request.doc, request.fault)
       IN  /\ r.exc # ""
           /\ pdf_processor' = r.self
    /\ Answer(jsonify_error(500, "Information extraction failed"))

\* pdf_processor.extract_text_with_positions(filepath) returns, and
\* llm_extractor.extract_information(pages_data, query_types) is entered
Parse ==
    /\ Accepted
    /\ LET r == extract_text_with_positions(pdf_processor, request.doc, request.fault)
       IN  /\ r.exc = ""
           /\ pdf_processor' = r.self
           /\ pages_data' = r.val
    /\ query_types' = request.query_types
    /\ pc' = "loop"
    /\ UNCHANGED <<LLM_PROVIDER, pi, qi, all_extracted, calls, request, response, rest>>

\* variant: the handler answers with what has been gathered so far
Respond_Early ==
    /\ pc \in {"loop", "done"}
    /\ response' = jsonify_success(all_extracted)
    /\ pc' = "responded"
    /\ UNCHANGED <<pages_data, query_types, LLM_PROVIDER, pi, qi, all_extracted, calls,
                   request, pdf_processor, rest>>

\* extract_information has returned: the success response
Respond ==
    /\ pc = "done"
    /\ response' = jsonify_success(all_extracted)
    /\ pc' = "responded"
    /\ UNCHANGED <<pages_data, query_types, LLM_PROVIDER, pi, qi, all_extracted, calls,
                   request, pdf_processor, rest>>

NextApi ==
    \/ Receive
    \/ NoBody
    \/ FileNotFound
    \/ NoQueryTypes
    \/ ParseFails
    \/ Parse
    \/ SkipBlankPage
    \/ ExtractStep(ReplyPool)
    \/ NextPage
    \/ Return
    \/ Respond

ApiSpec == InitApi /\ [][NextApi]_vars

----------------------------------------------------------------------------
(* The processor and the extractor called directly, one call after the     *)
(* other, as tests/test_system.py and a user of the search API do.  Each    *)
(* call is recorded in `query`; the first rule run is kept in `memo`, with  *)
(* `between` telling that other calls followed it.  extract_information     *)
(* runs step by step on the list the processor holds.                       *)

extraction == <<pages_data, query_types, LLM_PROVIDER, pc, pi, qi, all_extracted, calls>>
others == <<request, response, threads, local_llm_manager, local_call>>

InitQuery ==
    /\ pc = "idle"
    /\ LLM_PROVIDER \in {"openai", "local"}
    /\ Fresh
    /\ Standalone
    /\ Apart

Call(op) == [NoQuery EXCEPT !.op = op]
Noted == IF memo.op = "none" THEN memo ELSE [memo EXCEPT !.between = TRUE]

\* processor.extract_text_with_positions(path)
Load ==
    /\ pc = "idle"
    /\ \E doc \in QueryDocs : \E fault \in Faults(doc) :
         LET r == extract_text_with_positions(pdf_processor, doc, fault)
         IN  /\ pdf_processor' = r.self
             /\ query' = [Call("extract_text_with_positions") EXCEPT
                              !.exc = r.exc, !.result = r.val]
    /\ memo' = Noted
    /\ UNCHANGED <<extraction, others>>

\* variant: the search lowers the stored texts in place
Search_InPlace ==
    /\ pc = "idle"
    /\ \E search_text \in SearchTexts :
         query' = [Call("search_text_positions") EXCEPT
                      !.text = search_text,
                      !.result = search_text_positions(pdf_processor, search_text)]
    /\ pdf_processor' =
         [pdf_processor EXCEPT !.pages_data =
             [k \in DOMAIN @ |->
                 [@[k] EXCEPT !.text_blocks =
                     [j \in DOMAIN @ |-> [@[j] EXCEPT !.text = Lower(@)]]]]]
    /\ memo' = Noted
    /\ UNCHANGED <<extraction, others>>

\* processor.search_text_positions(search_text)
Search ==
    /\ pc = "idle"
    /\ \E search_text \in SearchTexts :
         query' = [Call("search_text_positions") EXCEPT
                      !.text = search_text,
                      !.result = search_text_positions(pdf_processor, search_text)]
    /\ memo' = Noted
    /\ UNCHANGED <<extraction, pdf_processor, others>>

\* processor.get_text_by_page(page_number)
GetText ==
    /\ pc = "idle"
    /\ \E page_number \in QueryPages :
         query' = [Call("get_text_by_page") EXCEPT
                      !.page = page_number,
                      !.result = get_text_by_page(pdf_processor, page_number)]
    /\ memo' = Noted
    /\ UNCHANGED <<extraction, pdf_processor, others>>

\* processor.get_context_around_position(page_number, target_bbox, radius)
GetContext ==
    /\ pc = "idle"
    /\ \E page_number \in QueryPages, target_bbox \in TargetBoxes, radius \in Radii :
         query' = [Call("get_context_around_position") EXCEPT
                      !.page = page_number, !.bbox = target_bbox, !.radius = radius,
                      !.result = get_context_around_position(pdf_processor, page_number,
                                                             target_bbox, radius)]
    /\ memo' = Noted
    /\ UNCHANGED <<extraction, pdf_processor, others>>

\* extractor._find_text_position(search_text, page_data) on a stored page
Locate ==
    /\ pc = "idle"
    /\ \E k \in 1..Len(pdf_processor.pages_data), search_text \in SearchTexts :
         LET page_data == pdf_processor.pages_data[k]
         IN  query' = [Call("_find_text_position") EXCEPT
                          !.page = page_data.page_number, !.text = search_text,
                          !.page_data = page_data,
                          !.result = _find_text_position(PyStr(search_text), page_data).val]
    /\ memo' = Noted
    /\ UNCHANGED <<extraction, pdf_processor, others>>

\* extractor._parse_llm_response(response_text, ...) on a stored page
ParseReply ==
    /\ pc = "idle"
    /\ \E k \in 1..Len(pdf_processor.pages_data), response_text \in ReplyPool :
         LET page_data == pdf_processor.pages_data[k]
         IN  query' = [Call("_parse_llm_response") EXCEPT
                          !.page = page_data.page_number, !.category = "numbers",
                          !.page_data = page_data,
                          !.result = _parse_llm_response(response_text, "numbers",
                                                         page_data.page_number, page_data)]
    /\ memo' = Noted
    /\ UNCHANGED <<extraction, pdf_processor, others>>

\* variant: the result list is kept between the calls and grows
RunRules_Stateful(remember) ==
    /\ pc = "idle"
    /\ \E k \in 1..Len(pdf_processor.pages_data), query_type \in QueryCategories :
         LET page_data == pdf_processor.pages_data[k]
             results == _extract_with_rules(page_data.full_text, query_type,
                                            page_data.page_number, page_data)
             call == [Call("_extract_with_rules") EXCEPT
                         !.page = page_data.page_number, !.category = query_type,
                         !.text = page_data.full_text, !.page_data = page_data,
                         !.result = IF query.op = "_extract_with_rules"
                                    THEN query.result \o results ELSE results]
         IN  /\ query' = call
             /\ memo' = IF ~remember THEN memo
                        ELSE IF memo.op = "none"
                        THEN [op |-> "rules", category |-> query_type,
                              text |-> page_data.full_text, page_data |-> page_data,
                              result |-> call.result, between |-> FALSE]
                        ELSE IF memo.category = query_type /\ memo.page_data = page_data
                        THEN memo ELSE Noted
    /\ UNCHANGED <<extraction, pdf_processor, others>>

\* extractor._extract_with_rules(page_data['full_text'], query_type, ...);
\* `remember` tells whether the first run is kept for a later comparison
RunRules(remember) ==
    /\ pc = "idle"
    /\ \E k \in 1..Len(pdf_processor.pages_data), query_type \in QueryCategories :
         LET page_data == pdf_processor.pages_data[k]
             results == _extract_with_rules(page_data.full_text, query_type,
                                            page_data.page_number, page_data)
             call == [Call("_extract_with_rules") EXCEPT
                         !.page = page_data.page_number, !.category = query_type,
                         !.text = page_data.full_text, !.page_data = page_data,
                         !.result = results]
         IN  /\ query' = call
             /\ memo' = IF ~remember THEN memo
                        ELSE IF memo.op = "none"
                        THEN [op |-> "rules", category |-> query_type,
                              text |-> page_data.full_text, page_data |-> page_data,
                              result |-> call.result, between |-> FALSE]
                        ELSE IF memo.category = query_type /\ memo.page_data = page_data
                        THEN memo ELSE Noted
    /\ UNCHANGED <<extraction, pdf_processor, others>>

\* extractor.extract_information(pages_data, query_types) is entered with
\* the list the processor holds
Extract ==
    /\ pc = "idle"
    /\ pc' = "loop"
    /\ pages_data' = pdf_processor.pages_data
    /\ query_types' \in QueryLists2
    /\ query' = Call("extract_information")
    /\ memo' = Noted
    /\ UNCHANGED <<LLM_PROVIDER, pi, qi, all_extracted, calls, pdf_processor, others>>

\* the caller has the list extract_information returned
Finish ==
    /\ pc = "done"
    /\ request = NoRequest
    /\ pc' = "idle"
    /\ query' = [query EXCEPT !.result = all_extracted]
    /\ pages_data' = <<>>
    /\ query_types' = <<>>
    /\ pi' = 1
    /\ qi' = 1
    /\ all_extracted' = <<>>
    /\ calls' = <<>>
    /\ UNCHANGED <<LLM_PROVIDER, memo, pdf_processor, others>>

NextQuery ==
    \/ Load
    \/ Search
    \/ GetText
    \/ GetContext
    \/ Locate
    \/ ParseReply
    \/ RunRules(FALSE)
    \/ Extract
    \/ SkipBlankPage
    \/ ExtractStep(ReplyPool)
    \/ NextPage
    \/ Return
    \/ Finish

QuerySpec == InitQuery /\ [][NextQuery]_vars

\* The extractor's calls alone, the first rule run remembered.
NextRepeat ==
    \/ Load
    \/ RunRules(TRUE)
    \/ Locate
    \/ ParseReply
    \/ Extract
    \/ SkipBlankPage
    \/ ExtractStep(ReplyPool)
    \/ NextPage
    \/ Return
    \/ Finish

RepeatSpec == InitQuery /\ [][NextRepeat]_vars

----------------------------------------------------------------------------
(* /api/upload and /api/extract served by the threads of app.run: every    *)
(* request runs extract_text_with_positions on the one PDFProcessor of the  *)
(* module.  A thread's position `at` is                                     *)
(*   "idle"      no request                                                 *)
(*   "open"      before fitz.open and `self.current_doc = doc`              *)
(*   "pages"     in the page loop, `next` the 0-based page to read          *)
(*   "store"     before `self.pages_data = pages_data`                      *)
(*   "close"     before doc.close()                                         *)
(*   "returned"  the call has returned its list to the handler              *)
(*   "responded" the response is sent                                       *)
(* doc and pages are the locals `doc` and `pages_data` of the call.  The    *)
(* requests are those that reach the parser, the provider is 'local'.       *)

Threads == {1, 2}

ConcDocs == {<<RawPageNumbers>>, <<RawPageImage, RawPageTitle>>}
ConcFaults == {NoFault, [at |-> "open", page |-> 0], [at |-> "page", page |-> 1],
               [at |-> "close", page |-> 0]}
ConcQueryLists == {<<"numbers">>, <<"book_title", "numbers">>}

IdleThread ==
    [kind |-> "none", at |-> "idle", doc |-> <<>>, fault |-> NoFault, query_types |-> <<>>,
     next |-> 0, pages |-> <<>>, status |-> 0, items |-> <<>>, npages |-> 0]

RECURSIVE ItemsOfTypes(_, _, _)
\* `for query_type in query_types:` from the k-th category on, rule provider
ItemsOfTypes(page_data, types, k) ==
    IF k > Len(types) THEN <<>>
    ELSE _extract_by_type("local", page_data.full_text, types[k], page_data.page_number,
                          page_data, [kind |-> "none", text |-> <<>>]).items
         \o ItemsOfTypes(page_data, types, k + 1)

RECURSIVE ItemsOfPages(_, _, _)
\* `for page_data in pages_data:` from the k-th page on
ItemsOfPages(pages, types, k) ==
    IF k > Len(pages) THEN <<>>
    ELSE (IF Blank(pages[k]) THEN <<>> ELSE ItemsOfTypes(pages[k], types, 1))
         \o ItemsOfPages(pages, types, k + 1)

\* extract_information under the rule provider, in one piece
extract_information(pages, types) == ItemsOfPages(pages, types, 1)

InitConc ==
    /\ pc = "idle"
    /\ LLM_PROVIDER = "local"
    /\ Fresh
    /\ Standalone
    /\ query = NoQuery
    /\ memo = NoMemo
    /\ threads = [of |-> [t \in Threads |-> IdleThread], parsed |-> {}]
    /\ local_llm_manager = LocalLLMManager
    /\ local_call = NoLocalCall

serial == <<extraction, request, response, query, memo, local_llm_manager, local_call>>

\* thread t goes on as `local`
Goes(t, local) == threads' = [threads EXCEPT !.of[t] = local]
Fails(t) == Goes(t, [threads.of[t] EXCEPT !.at = "responded", !.status = 500])

\* a request arrives: an upload of a file, or an extraction from a file
Begin(t) ==
    /\ threads.of[t].at = "idle"
    /\ \E doc \in ConcDocs, fault \in ConcFaults :
         \/ Goes(t, [IdleThread EXCEPT !.kind = "upload", !.at = "open", !.doc = doc,
                                       !.fault = fault])
         \/ \E types \in ConcQueryLists :
              Goes(t, [IdleThread EXCEPT !.kind = "extract", !.at = "open", !.doc = doc,
                                         !.fault = fault, !.query_types = types])
    /\ UNCHANGED <<pdf_processor, serial>>

\* doc = fitz.open(pdf_path); self.current_doc = doc
Open(t) ==
    /\ threads.of[t].at = "open"
    /\ IF threads.of[t].fault.at = "open"
       THEN Fails(t) /\ UNCHANGED pdf_processor
       ELSE /\ Goes(t, [threads.of[t] EXCEPT !.at = "pages"])
            /\ pdf_processor' = [pdf_processor EXCEPT !.current_doc = Opened(threads.of[t].doc)]
    /\ UNCHANGED serial

\* one iteration of `for page_num in range(len(doc)):`
ReadPage(t) ==
    LET local == threads.of[t]
    IN  /\ local.at = "pages"
        /\ IF local.next >= Len(local.doc)
           THEN Goes(t, [local EXCEPT !.at = "store"])
           ELSE IF local.fault.at = "page" /\ local.fault.page = local.next + 1
           THEN Fails(t)
           ELSE Goes(t, [local EXCEPT
                            !.pages = Append(@, page_info(local.next, local.doc[local.next + 1])),
                            !.next = @ + 1])
        /\ UNCHANGED <<pdf_processor, serial>>

\* self.pages_data = pages_data
Store(t) ==
    /\ threads.of[t].at = "store"
    /\ pdf_processor' = [pdf_processor EXCEPT !.pages_data = threads.of[t].pages]
    /\ Goes(t, [threads.of[t] EXCEPT !.at = "close"])
    /\ UNCHANGED serial

\* doc.close(); return pages_data
Close(t) ==
    /\ threads.of[t].at = "close"
    /\ IF threads.of[t].fault.at = "close"
       THEN Fails(t)
       ELSE threads' = [threads EXCEPT !.of[t].at = "returned",
                                       !.parsed = @ \cup {threads.of[t].doc}]
    /\ UNCHANGED <<pdf_processor, serial>>

\* variant: the handler of /api/extract reads the processor's list
Reply_Shared(t) ==
    LET local == threads.of[t]
    IN  /\ local.at = "returned"
        /\ IF local.kind = "upload"
           THEN Goes(t, [local EXCEPT !.at = "responded", !.status = 200,
                                      !.npages = Len(local.pages)])
           ELSE Goes(t, [local EXCEPT !.at = "responded", !.status = 200,
                                      !.items = extract_information(pdf_processor.pages_data,
                                                                    local.query_types)])
        /\ UNCHANGED <<pdf_processor, serial>>

\* the handler answers from the list the call returned
Reply(t) ==
    LET local == threads.of[t]
    IN  /\ local.at = "returned"
        /\ IF local.kind = "upload"
           THEN Goes(t, [local EXCEPT !.at = "responded", !.status = 200,
                                      !.npages = Len(local.pages)])
           ELSE Goes(t, [local EXCEPT !.at = "responded", !.status = 200,
                                      !.items = extract_information(local.pages,
                                                                    local.query_types)])
        /\ UNCHANGED <<pdf_processor, serial>>

\* the thread is free for the next request
Free(t) ==
    /\ threads.of[t].at = "responded"
    /\ Goes(t, IdleThread)
    /\ UNCHANGED <<pdf_processor, serial>>

NextConc ==
    \E t \in Threads :
        \/ Begin(t)
        \/ Open(t)
        \/ ReadPage(t)
        \/ Store(t)
        \/ Close(t)
        \/ Reply(t)
        \/ Free(t)

ConcSpec == InitConc /\ [][NextConc]_vars

----------------------------------------------------------------------------
(* LocalLLMManager of backend/local_llm.py.  A loaded tokenizer or model is *)
(* written by the name it was loaded from, "None" when unset.  `fault` is   *)
(* where the libraries raise during load_model:                             *)
(*   "tokenizer"  in AutoTokenizer.from_pretrained                          *)
(*   "model"      in from_pretrained(...).to(device) of the model           *)
(*   "eval"       in self.model.eval()                                      *)
(* `outcome` is what the model does in generate_response: it raises, it     *)
(* returns something that is not a str, or it returns the reply `text`.     *)
(* The labels of _get_type_name are written in pinyin.                      *)

LOCAL_MODEL_NAME == "chatglm3-6b"
ModelNames == {"None", "chatglm3-6b", "llama"}
LoadFaults == {"none", "tokenizer", "model", "eval"}

\* variant: a failed load leaves model_loaded as it was
load_model_KeepFlag(self, model_name, fault) ==
    LET name == IF model_name = "None" THEN LOCAL_MODEL_NAME ELSE model_name
        tokenized == [self EXCEPT !.tokenizer = name]
        modelled == [tokenized EXCEPT !.model = name]
    IN  IF fault = "tokenizer" THEN [self |-> self, val |-> FALSE]
        ELSE IF fault = "model" THEN [self |-> tokenized, val |-> FALSE]
        ELSE IF fault = "eval" THEN [self |-> modelled, val |-> FALSE]
        ELSE [self |-> [modelled EXCEPT !.model_loaded = TRUE], val |-> TRUE]

\* load_model: both branches assign self.tokenizer, then self.model, then
\* call eval() and set model_loaded; the except sets model_loaded = False
load_model(self, model_name, fault) ==
    LET name == IF model_name = "None" THEN LOCAL_MODEL_NAME ELSE model_name
        tokenized == [self EXCEPT !.tokenizer = name]
        modelled == [tokenized EXCEPT !.model = name]
    IN  IF fault = "tokenizer"
        THEN [self |-> [self EXCEPT !.model_loaded = FALSE], val |-> FALSE]
        ELSE IF fault = "model"
        THEN [self |-> [tokenized EXCEPT !.model_loaded = FALSE], val |-> FALSE]
        ELSE IF fault = "eval"
        THEN [self |-> [modelled EXCEPT !.model_loaded = FALSE], val |-> FALSE]
        ELSE [self |-> [modelled EXCEPT !.model_loaded = TRUE], val |-> TRUE]

unload_model(self) ==
    LET unmodelled == IF self.model # "None" THEN [self EXCEPT !.model = "None"] ELSE self
        untokenized == IF unmodelled.tokenizer # "None"
                       THEN [unmodelled EXCEPT !.tokenizer = "None"] ELSE unmodelled
    IN  [untokenized EXCEPT !.model_loaded = FALSE]

\* what generate_response hands back: a str, its tokens in toks, or not
NotStr == [is_str |-> FALSE, toks |-> <<>>]
Str(toks) == [is_str |-> TRUE, toks |-> toks]

generate_response(self, outcome) ==
    IF ~self.model_loaded
    THEN [exc |-> "Exception", val |-> NotStr, invoked |-> FALSE]
    ELSE IF outcome.kind = "raises"
    THEN [exc |-> "Exception", val |-> NotStr, invoked |-> TRUE]
    ELSE IF outcome.kind = "nonstr"
    THEN [exc |-> "", val |-> NotStr, invoked |-> TRUE]
    ELSE [exc |-> "", val |-> Str(outcome.text), invoked |-> TRUE]

\* re.search(r'\[.*?\]', response, re.DOTALL): from the first "[" to the
\* first "]" after it
SearchArrayLazy(toks) ==
    LET i == FirstTok(toks, "[", 0)
        j == IF i >= 0 THEN FirstTok(toks, "]", i + 1) ELSE -1
    IN  IF i >= 0 /\ j > i
        THEN [found |-> TRUE, str |-> Slice(toks, i, j + 1)]
        ELSE [found |-> FALSE, str |-> <<>>]

local_type_names ==
    [stock_name   |-> "zhengquan jiancheng",
     company_name |-> "gongsi quancheng",
     person_name  |-> "renming",
     numbers      |-> "shuzi",
     book_title   |-> "shuminghao neirong",
     proposal     |-> "ti'an/yi'an ming"]

_get_type_name_local(query_type) ==
    IF query_type \in DOMAIN local_type_names THEN local_type_names[query_type]
    ELSE query_type

RECURSIVE LocalLoop(_, _, _)
\* `for item in extracted_data:` over elems[k..]; the objects of the model
\* have no confidence key
LocalLoop(elems, k, query_type) ==
    IF k > Len(elems) THEN <<>>
    ELSE (IF elems[k].k = "obj" /\ elems[k].d.has_value
          THEN <<[type |-> _get_type_name_local(query_type), value |-> elems[k].d.value,
                  context |-> IF elems[k].d.has_context THEN elems[k].d.context ELSE <<>>,
                  confidence |-> "0.8"]>>
          ELSE <<>>)
         \o LocalLoop(elems, k + 1, query_type)

\* _parse_local_response: re.search raises TypeError on a response that is
\* not a str and json.loads raises on a text that is not JSON; the except
\* returns []
_parse_local_response(response_text, query_type) ==
    IF ~response_text.is_str THEN <<>>
    ELSE LET json_match == SearchArrayLazy(response_text.toks)
             extracted_data == json_loads(json_match.str)
         IN  IF ~json_match.found THEN <<>>
             ELSE IF ~extracted_data.ok THEN <<>>
             ELSE LocalLoop(extracted_data.elems, 1, query_type)

\* variant: without the try around generation and parsing
extract_information_local_NoTry(self, query_type, outcome) ==
    IF ~self.model_loaded THEN [exc |-> "", val |-> <<>>, invoked |-> FALSE]
    ELSE LET generated == generate_response(self, outcome)
         IN  IF generated.exc # ""
             THEN [exc |-> generated.exc, val |-> <<>>, invoked |-> generated.invoked]
             ELSE [exc |-> "", val |-> _parse_local_response(generated.val, query_type),
                   invoked |-> generated.invoked]

extract_information_local(self, query_type, outcome) ==
    IF ~self.model_loaded THEN [exc |-> "", val |-> <<>>, invoked |-> FALSE]
    ELSE LET generated == generate_response(self, outcome)
         IN  IF generated.exc # ""
             THEN [exc |-> "", val |-> <<>>, invoked |-> generated.invoked]
             ELSE [exc |-> "", val |-> _parse_local_response(generated.val, query_type),
                   invoked |-> generated.invoked]

\* replies of the local model: every shape around two elements and around
\* none, and two arrays one after the other
LocalReplies ==
    ReplyShapes(CommaJoin(<<Obj(GoodDict(<<"A">>)), Tok("int")>>))
        \cup ReplyShapes(<<>>)
        \cup {<<Tok("["), Obj(BareDict(PyNum)), Tok("]"), Tok("["), Tok("int"), Tok("]")>>}

LocalOutcomes ==
    {[kind |-> "raises", text |-> <<>>], [kind |-> "nonstr", text |-> <<>>]}
        \cup {[kind |-> "reply", text |-> r] : r \in LocalReplies}

InitLocal ==
    /\ pc = "idle"
    /\ LLM_PROVIDER = "local"
    /\ Fresh
    /\ Standalone
    /\ Apart

remote == <<extraction, api, query, memo, threads>>

LocalCall(op) == [NoLocalCall EXCEPT !.op = op, !.before = local_llm_manager]

\* local_llm_manager.load_model(model_name)
LoadModel ==
    /\ \E model_name \in ModelNames, fault \in LoadFaults :
         LET r == load_model(local_llm_manager, model_name, fault)
         IN  /\ local_llm_manager' = r.self
             /\ local_call' = [LocalCall("load_model") EXCEPT
                                   !.model_name = model_name, !.fault = fault,
                                   !.result = r.val]
    /\ UNCHANGED remote

\* local_llm_manager.unload_model()
UnloadModel ==
    /\ local_llm_manager' = unload_model(local_llm_manager)
    /\ local_call' = LocalCall("unload_model")
    /\ UNCHANGED remote

\* local_llm_manager.generate_response(prompt)
GenerateResponse ==
    /\ \E outcome \in LocalOutcomes :
         LET r == generate_response(local_llm_manager, outcome)
         IN  local_call' = [LocalCall("generate_response") EXCEPT
                               !.outcome = outcome, !.exc = r.exc, !.result = r.val,
                               !.invoked = r.invoked]
    /\ UNCHANGED <<local_llm_manager, remote>>

\* local_llm_manager.extract_information_local(text, 'numbers')
ExtractLocal ==
    /\ \E outcome \in LocalOutcomes :
         LET r == extract_information_local(local_llm_manager, "numbers", outcome)
         IN  local_call' = [LocalCall("extract_information_local") EXCEPT
                               !.outcome = outcome, !.exc = r.exc, !.result = r.val,
                               !.invoked = r.invoked]
    /\ UNCHANGED <<local_llm_manager, remote>>

NextLocal ==
    \/ LoadModel
    \/ UnloadModel
    \/ GenerateResponse
    \/ ExtractLocal

LocalSpec == InitLocal /\ [][NextLocal]_vars

----------------------------------------------------------------------------
(* Properties                                                              *)

Oracle == {"openai", "deepseek"}

PageOf(c) == pages_data[c.pi]
QueryOf(c) == query_types[c.qi]

\* what the Pattern Extractor returns for the page and category of call c
RulesOf(c) ==
    _extract_with_rules(PageOf(c).full_text, QueryOf(c), PageOf(c).page_number, PageOf(c))

\* the reply text holds no "[...]" span, or the span (else the text) is not JSON
InvalidReply(text) ==
    LET m == SearchArray(text)
    IN  \/ ~m.found
        \/ ~json_loads(m.str).ok

IsBlankText(text) == \A i \in DOMAIN text : text[i] \in Whitespace

\* the blocks of the page an item points to, and those that contain its value
BlocksOf(item) == pages_data[item.page].text_blocks
Hits(item) == {k \in DOMAIN BlocksOf(item) : Contains(BlocksOf(item)[k].text, item.value.s)}

\* C1: when the oracle's reply is not valid JSON or holds no JSON array, the
\* items of that (page, category) are exactly the Pattern Extractor's items.
C1_InvalidReplyFallsBack ==
    \A k \in DOMAIN calls :
        (calls[k].outcome.kind = "reply" /\ InvalidReply(calls[k].outcome.text))
            => calls[k].items = RulesOf(calls[k])

\* C2: when the backend call fails (raises, times out, status other than
\* 200), the items of that (page, category) are exactly the Pattern
\* Extractor's items, and the request goes on.
C2_BackendFailureFallsBack ==
    \A k \in DOMAIN calls :
        calls[k].outcome.kind \in {"raises", "non200"}
            => /\ calls[k].items = RulesOf(calls[k])
               /\ calls[k].rules = 1

C2_Witness ==
    \E k \in DOMAIN calls :
        /\ calls[k].outcome.kind = "non200"
        /\ calls[k].items # <<>>
        /\ pc = "done"

RECURSIVE FlatItems(_)
FlatItems(cs) == IF cs = <<>> THEN <<>> ELSE Head(cs).items \o FlatItems(Tail(cs))

\* position in the request of the category an item's label belongs to
CatPos(item) ==
    CHOOSE i \in DOMAIN query_types : _get_type_name(query_types[i]) = item.type

\* C3: the result list keeps page order, then requested-category order, then
\* candidate order; nothing is reordered or deduplicated.
C3_OrderPreserved ==
    /\ all_extracted = FlatItems(calls)
    /\ \A i, j \in DOMAIN all_extracted :
         i < j => /\ all_extracted[i].page <= all_extracted[j].page
                  /\ all_extracted[i].page = all_extracted[j].page
                       => CatPos(all_extracted[i]) <= CatPos(all_extracted[j])

C3_Witness ==
    /\ pc = "done"
    /\ \E i, j \in DOMAIN all_extracted :
         i < j /\ all_extracted[i].page < all_extracted[j].page
    /\ \E i, j \in DOMAIN all_extracted :
         /\ i < j
         /\ all_extracted[i].page = all_extracted[j].page
         /\ CatPos(all_extracted[i]) < CatPos(all_extracted[j])
    /\ \E i, j \in DOMAIN all_extracted :
         i < j /\ all_extracted[i] = all_extracted[j]

\* C4: an item's position is (0,0) if and only if no block of its page
\* contains its value.
C4_SentinelIffNoBlock ==
    \A i \in DOMAIN all_extracted :
        (all_extracted[i].position = <<0, 0>>) <=> (Hits(all_extracted[i]) = {})

\* C5: when several blocks of the page contain the value, the position is
\* the centroid of the first of them in block order.
C5_FirstMatchCentroid ==
    \A i \in DOMAIN all_extracted :
        LET item == all_extracted[i]
            hits == Hits(item)
        IN  hits # {} =>
              \E k \in hits :
                 /\ \A h \in hits : k <= h
                 /\ item.position = Centroid(BlocksOf(item)[k].bbox)

C5_Witness ==
    \E i \in DOMAIN all_extracted :
        LET item == all_extracted[i]
        IN  \E k, h \in Hits(item) :
               /\ k < h
               /\ Centroid(BlocksOf(item)[k].bbox) # Centroid(BlocksOf(item)[h].bbox)
               /\ item.position = Centroid(BlocksOf(item)[k].bbox)

WellFormed(e) == e.k = "obj" /\ e.d.has_value /\ e.d.value.t = "str" /\ e.d.value.s # <<>>
NonEmptyValue(item) == item.value.t = "str" /\ item.value.s # <<>>

RECURSIVE ElemValues(_)
ElemValues(es) == IF es = <<>> THEN <<>> ELSE <<Head(es).d.value>> \o ElemValues(Tail(es))
RECURSIVE ItemValues(_)
ItemValues(is) == IF is = <<>> THEN <<>> ELSE <<Head(is).value>> \o ItemValues(Tail(is))

\* C6: when the reply is a JSON array, an element without the required shape
\* is dropped alone: the well-formed elements yield items, in array order.
C6_OnlyMalformedElementDropped ==
    \A k \in DOMAIN calls :
        LET m == SearchArray(calls[k].outcome.text)
            parsed == json_loads(m.str)
        IN  (calls[k].outcome.kind = "reply" /\ m.found /\ parsed.ok)
              => ItemValues(SelectSeq(calls[k].items, NonEmptyValue))
                   = ElemValues(SelectSeq(parsed.elems, WellFormed))

\* C7: every returned item has a non-empty value.
C7_ValuesNonEmpty ==
    \A i \in DOMAIN all_extracted : NonEmptyValue(all_extracted[i])

RECURSIVE BackendCalls(_)
BackendCalls(cs) == IF cs = <<>> THEN 0 ELSE Head(cs).backend + BackendCalls(Tail(cs))

NonBlankPages == {p \in DOMAIN pages_data : ~IsBlankText(pages_data[p].full_text)}

\* C8: for each (non-blank page, category) pair the backend is called at most
\* once and the rule fallback runs at most once; with an oracle provider the
\* request makes (non-blank pages) x (categories) backend calls in all.
C8_OneAttemptPerPair ==
    /\ \A k \in DOMAIN calls : calls[k].backend <= 1 /\ calls[k].rules <= 1
    /\ \A k, l \in DOMAIN calls :
         k # l => <<calls[k].pi, calls[k].qi>> # <<calls[l].pi, calls[l].qi>>
    /\ (pc = "done" /\ LLM_PROVIDER \in Oracle)
         => BackendCalls(calls) = Cardinality(NonBlankPages) * Len(query_types)

C8_Witness ==
    /\ pc = "done"
    /\ LLM_PROVIDER \in Oracle
    /\ BackendCalls(calls) = 4
    /\ \E k \in DOMAIN calls : calls[k].outcome.kind = "raises" /\ calls[k].rules = 1

\* C9: a page whose full_text is empty or only whitespace triggers no
\* extractor invocation and contributes no item; a document whose pages are
\* all blank yields an empty result.
C9_BlankPagesSkipped ==
    /\ \A k \in DOMAIN calls : calls[k].pi \in NonBlankPages
    /\ \A i \in DOMAIN all_extracted : all_extracted[i].page \in NonBlankPages
    /\ NonBlankPages = {} => (all_extracted = <<>> /\ calls = <<>>)

C9_Witness ==
    /\ pc = "done"
    /\ \E p \in DOMAIN pages_data :
         pages_data[p].full_text # <<>> /\ IsBlankText(pages_data[p].full_text)
    /\ all_extracted # <<>>
    /\ LLM_PROVIDER \in Oracle

IsDigits(chars) == \A i \in DOMAIN chars : chars[i] \in Digit

\* C10: a six-digit candidate of the numbers rule is a whole digit run: it is
\* neither preceded nor followed by a digit in the page text.
C10_CodeIsWholeDigitRun ==
    \A k \in DOMAIN calls :
        (calls[k].rules = 1 /\ QueryOf(calls[k]) = "numbers") =>
            \A i \in DOMAIN calls[k].items :
                LET v == calls[k].items[i].value.s
                    text == PageOf(calls[k]).full_text
                IN  IsDigits(v) =>
                      \E p \in 0..(Len(text) - 6) :
                         /\ Slice(text, p, p + 6) = v
                         /\ At(text, p - 1) \notin Digit
                         /\ At(text, p + 6) \notin Digit

\* the matched substrings of a list of matches, in list order
Matched(text, ms) == [k \in DOMAIN ms |-> Slice(text, ms[k].start, ms[k].end)]

\* the value strings of a list of items, in list order
ValueTexts(items) == [k \in DOMAIN items |-> items[k].value.s]

RuleCalls(query_type) ==
    {k \in DOMAIN calls : calls[k].rules = 1 /\ QueryOf(calls[k]) = query_type}

\* C11: for category numbers the Pattern Extractor returns every match of
\* the percentage pattern, then every match of the amount pattern, then
\* every match of the six-digit pattern, each class left to right; a
\* substring matched by two classes appears once per class.
C11_NumbersClassOrder ==
    \A k \in RuleCalls("numbers") :
        LET text == PageOf(calls[k]).full_text
        IN  ValueTexts(calls[k].items)
              = Matched(text, FindIter("percent", text, 0))
                  \o Matched(text, FindIter("amount", text, 0))
                  \o Matched(text, FindIter("code", text, 0))

C11_Witness ==
    /\ pc = "done"
    /\ \E k \in RuleCalls("numbers") :
         \E i, j \in DOMAIN calls[k].items :
            /\ i < j
            /\ calls[k].items[i].value.s = calls[k].items[j].value.s \o <<"yuan">>
            /\ Len(calls[k].items[j].value.s) = 6

\* position of the first closing mark after the opening mark at p, -1 if none
CloseOf(text, p) ==
    LET closes == {c \in (p + 1)..(Len(text) - 1) : At(text, c) = "RQ"}
    IN  IF closes = {} THEN -1 ELSE CHOOSE c \in closes : \A d \in closes : c <= d

\* opening marks whose next closing mark is at least one character away
TitleOpens(text) ==
    {p \in 0..(Len(text) - 1) : At(text, p) = "LQ" /\ CloseOf(text, p) > p + 1}

\* S holds the pairs taken left to right: an opening mark is taken exactly
\* when it does not lie inside a pair taken before it
TakenPairs(text, S) ==
    \A p \in TitleOpens(text) :
        p \in S <=> ~\E q \in S : q < p /\ p <= CloseOf(text, q)

\* the k-th element of a set of positions in increasing order
Nth(S, k) == CHOOSE p \in S : Cardinality({q \in S : q < p}) = k - 1

\* C12: for category book_title the Pattern Extractor yields one candidate
\* per non-overlapping pair of an opening mark and the next closing mark
\* with at least one character between them, left to right; the value is
\* the text strictly between the marks, and an empty pair yields nothing.
C12_TitlePairs ==
    \A k \in RuleCalls("book_title") :
        LET text == PageOf(calls[k]).full_text
            items == calls[k].items
        IN  \E S \in SUBSET TitleOpens(text) :
               /\ TakenPairs(text, S)
               /\ Len(items) = Cardinality(S)
               /\ \A i \in DOMAIN items :
                    items[i].value.s = Slice(text, Nth(S, i) + 1, CloseOf(text, Nth(S, i)))

C12_Witness ==
    /\ pc = "done"
    /\ \E k \in RuleCalls("book_title") :
         /\ Len(calls[k].items) = 2
         /\ Contains(PageOf(calls[k]).full_text, <<"LQ", "RQ">>)
         /\ \A i \in DOMAIN calls[k].items : calls[k].items[i].value.s # <<>>

Ruleless == {"stock_name", "company_name", "person_name", "proposal"}

\* C13: for stock_name, company_name, person_name, proposal and any id
\* outside the registry the Pattern Extractor returns an empty list,
\* whatever the page text.
C13_RulelessCategoriesEmpty ==
    \A k \in DOMAIN calls :
        (calls[k].rules = 1 /\ QueryOf(calls[k]) \notin {"numbers", "book_title"})
            => calls[k].items = <<>>

C13_Witness ==
    /\ pc = "done"
    /\ \E k \in DOMAIN calls :
         /\ calls[k].rules = 1
         /\ QueryOf(calls[k]) \notin Ruleless \cup DOMAIN type_names
         /\ PageOf(calls[k]).full_text = TextCodeAmount
         /\ calls[k].items = <<>>


\* the matches a rule run works through, in the order it takes them
RuleMatches(query_type, text) ==
    IF query_type = "book_title" THEN FindIter("title", text, 0)
    ELSE FindIter("percent", text, 0) \o FindIter("amount", text, 0)
             \o FindIter("code", text, 0)

\* c is window without its leading and trailing whitespace
Trimmed(window, c) ==
    \E a \in 0..Len(window) : \E b \in a..Len(window) :
        /\ c = Slice(window, a, b)
        /\ IsBlankText(Slice(window, 0, a))
        /\ IsBlankText(Slice(window, b, Len(window)))
        /\ c # <<>> => (c[1] \notin Whitespace /\ c[Len(c)] \notin Whitespace)

\* C14: the context of a rule match at [start, end) in a text of length n
\* is text[max(0, start-50) : min(n, end+50)] without leading and trailing
\* whitespace, and the window lies inside the text.
C14_ContextWindow ==
    \A k \in RuleCalls("numbers") \cup RuleCalls("book_title") :
        LET text == PageOf(calls[k]).full_text
            n == Len(text)
            ms == RuleMatches(QueryOf(calls[k]), text)
        IN  /\ Len(calls[k].items) = Len(ms)
            /\ \A i \in DOMAIN ms :
                 LET lo == IF ms[i].start - 50 > 0 THEN ms[i].start - 50 ELSE 0
                     hi == IF ms[i].end + 50 < n THEN ms[i].end + 50 ELSE n
                 IN  /\ 0 <= lo /\ lo <= hi /\ hi <= n
                     /\ Trimmed(Slice(text, lo, hi), calls[k].items[i].context)

\* a match more than 50 characters from both ends of the text, with a space
\* on both edges of its window
C14_Witness ==
    /\ pc = "done"
    /\ \E k \in RuleCalls("numbers") :
         LET text == PageOf(calls[k]).full_text
             ms == RuleMatches("numbers", text)
         IN  /\ Len(ms) = 1
             /\ ms[1].start > 50
             /\ ms[1].end + 50 < Len(text)
             /\ At(text, ms[1].start - 50) = " "
             /\ At(text, ms[1].end + 49) = " "
             /\ Len(calls[k].items[1].context) = (ms[1].end - ms[1].start) + 98


\* the category registry: id -> label, an id outside it stands for itself
RegistryLabel(id) ==
    CASE id = "stock_name"   -> "Security Abbreviation"
      [] id = "company_name" -> "Company Full Name"
      [] id = "person_name"  -> "Person Name"
      [] id = "numbers"      -> "Number"
      [] id = "book_title"   -> "Book Title Content"
      [] id = "proposal"     -> "Proposal/Motion Name"
      [] OTHER               -> id

HasValueKey(e) == e.k = "obj" /\ e.d.has_value

\* C16: when the reply parses to a JSON array, the items are the array's
\* objects that have a value key, in array order, each with its value and
\* with its context, or the empty string when it has no context key;
\* objects without a value key are left out.
C16_ValueKeyDecides ==
    \A k \in DOMAIN calls :
        LET m == SearchArray(calls[k].outcome.text)
            parsed == json_loads(m.str)
            kept == SelectSeq(parsed.elems, HasValueKey)
            items == calls[k].items
        IN  (calls[k].outcome.kind = "reply" /\ m.found /\ parsed.ok /\ parsed.list)
              => /\ Len(items) = Len(kept)
                 /\ \A i \in DOMAIN items :
                      /\ items[i].value = kept[i].d.value
                      /\ items[i].context
                           = IF kept[i].d.has_context THEN kept[i].d.context ELSE <<>>


\* C17: a request to /api/extract ends in a success response whose items
\* are those of every (non-blank page, category) pair of the whole document
\* with total_items their number, or in one error response without items;
\* there is no success response with part of the items.
C17_CompleteOrError ==
    /\ (pc = "responded") <=> (response # NoResponse)
    /\ response # NoResponse =>
         \/ /\ response.status = 200
            /\ response.keys = {"success", "extracted_info", "total_items"}
            /\ response.extracted_info = FlatItems(calls)
            /\ response.total_items = Len(response.extracted_info)
            /\ Len(pages_data) = Len(request.doc)
            /\ {<<calls[k].pi, calls[k].qi>> : k \in DOMAIN calls}
                 = NonBlankPages \X DOMAIN request.query_types
         \/ /\ response.status \in {400, 500}
            /\ response.keys = {"error"}
            /\ response.extracted_info = <<>>

\* a success response after the backend failed on a later page
C17_Witness ==
    /\ response.status = 200
    /\ response.total_items > 0
    /\ \E k \in DOMAIN calls :
         /\ k > 1
         /\ calls[k].pi > calls[1].pi
         /\ calls[k].outcome.kind = "raises"

\* C18: a call of extract_text_with_positions either returns the pages of
\* the whole document and leaves that list in the processor's pages_data,
\* or raises, returns nothing and leaves pages_data as it was.
C18_AllOrNothing ==
    [][Accepted =>
          \/ /\ pc' = "loop"
             /\ Len(pages_data') = Len(request.doc)
             /\ pdf_processor'.pages_data = pages_data'
          \/ /\ pc' = "responded"
             /\ pages_data' = <<>>
             /\ pdf_processor'.pages_data = pdf_processor.pages_data]_vars

\* C19: the page at position i of a page list the processor produced has
\* page_number i (counting from 1), and every item's page is the
\* page_number of the page of the document whose text produced it.
C19_PageNumbers ==
    /\ \A i \in DOMAIN pdf_processor.pages_data :
         pdf_processor.pages_data[i].page_number = i
    /\ \A i \in DOMAIN pages_data : pages_data[i].page_number = i
    /\ \A k \in DOMAIN calls :
         \A j \in DOMAIN calls[k].items :
            /\ calls[k].items[j].page = calls[k].pi
            /\ calls[k].items[j].page \in 1..Len(request.doc)
    /\ \A i \in DOMAIN all_extracted : all_extracted[i].page \in DOMAIN pages_data

\* items of the second and of the fourth page of a document
C19_Witness ==
    /\ pc = "responded"
    /\ Len(pdf_processor.pages_data) = 4
    /\ \E i, j \in DOMAIN response.extracted_info :
         /\ response.extracted_info[i].page = 2
         /\ response.extracted_info[j].page = 4

RECURSIVE OffsetOf(_, _)
\* where span k starts in the joined text: after the spans before it and
\* one separator for each
OffsetOf(blocks, k) ==
    IF k = 1 THEN 0 ELSE OffsetOf(blocks, k - 1) + Len(blocks[k - 1].text) + 1

JoinedBySpace(full_text, blocks) ==
    LET n == Len(blocks)
    IN  /\ n = 0 => full_text = <<>>
        /\ n > 0 => Len(full_text) = OffsetOf(blocks, n) + Len(blocks[n].text)
        /\ \A k \in 1..n :
             /\ Slice(full_text, OffsetOf(blocks, k),
                      OffsetOf(blocks, k) + Len(blocks[k].text)) = blocks[k].text
             /\ k < n => At(full_text, OffsetOf(blocks, k) + Len(blocks[k].text)) = " "

\* C20: on every page the processor produced, every stored span has a
\* non-empty text, full_text is the span texts in order with one space
\* between neighbours, and full_text is empty exactly when no span is stored.
C20_FullTextJoinsSpans ==
    \A i \in DOMAIN pdf_processor.pages_data :
        LET page == pdf_processor.pages_data[i]
        IN  /\ \A k \in DOMAIN page.text_blocks : page.text_blocks[k].text # <<>>
            /\ JoinedBySpace(page.full_text, page.text_blocks)
            /\ (page.full_text = <<>>) <=> (page.text_blocks = <<>>)

\* a page whose spans are all blank and a page that keeps four of five spans
C20_Witness ==
    /\ pdf_processor.current_doc = Opened(request.doc)
    /\ \E i, j \in DOMAIN pdf_processor.pages_data :
         /\ request.doc[i] = RawPageBlank
         /\ pdf_processor.pages_data[i].full_text = <<>>
         /\ request.doc[j] = RawPageNumbers
         /\ Len(pdf_processor.pages_data[j].text_blocks) = 4

\* the letter a character stands for, whatever its case: the two small
\* sigmas and the capital one are the same letter
Letter(c) == IF c \in {"SIGMA", "sigma", "fsigma"} THEN "sigma" ELSE LowerChar(c)

\* needle occurs in hay when case is ignored character by character
ContainsIgnoringCase(hay, needle) ==
    \E i \in 0..(Len(hay) - Len(needle)) :
        \A k \in 1..Len(needle) : Letter(hay[i + k]) = Letter(needle[k])

RECURSIVE AllSpans(_)
\* the spans of a page list with their page numbers: page order, then span order
AllSpans(pages) ==
    IF pages = <<>> THEN <<>>
    ELSE [k \in DOMAIN Head(pages).text_blocks |->
             [page |-> Head(pages).page_number, span |-> Head(pages).text_blocks[k]]]
         \o AllSpans(Tail(pages))

SpansContaining(pages, search_text) ==
    LET Has(e) == ContainsIgnoringCase(e.span.text, search_text)
    IN  SelectSeq(AllSpans(pages), Has)

\* C21: search_text_positions returns one entry for every span of the stored
\* document whose text contains the search text when case is ignored, and
\* no other entry, in page order then span order, each with the span's
\* page number and text and the centroid of its box.
C21_SearchFindsEverySpan ==
    query.op = "search_text_positions" =>
        LET spans == SpansContaining(pdf_processor.pages_data, query.text)
        IN  /\ Len(query.result) = Len(spans)
            /\ \A i \in DOMAIN spans :
                 /\ query.result[i].page = spans[i].page
                 /\ query.result[i].text = spans[i].span.text
                 /\ <<query.result[i].position.x, query.result[i].position.y>>
                        = Centroid(spans[i].span.bbox)

\* the same for a search text without a sigma
C21_SearchWithoutSigma ==
    (query.op = "search_text_positions" /\ \A k \in DOMAIN query.text : Letter(query.text[k]) # "sigma")
        => C21_SearchFindsEverySpan

\* twice the distance between the vertical centres of two boxes
TwiceApart(bbox, target_bbox) ==
    LET d == (bbox.y0 + bbox.y1) - (target_bbox.y0 + target_bbox.y1)
    IN  IF d >= 0 THEN d ELSE 0 - d

SpansNear(page, target_bbox, radius) ==
    LET Near(b) == TwiceApart(b.bbox, target_bbox) <= 2 * radius
    IN  SelectSeq(page.text_blocks, Near)

\* C22: get_context_around_position returns the texts, in span order and
\* joined by one space, of exactly the spans of the page whose vertical
\* centre is at most the radius away from the target's; for a page number
\* below 1 or above the number of stored pages it returns the empty text.
\* It never raises.
C22_ContextAroundPosition ==
    query.op = "get_context_around_position" =>
        /\ query.exc = ""
        /\ IF query.page < 1 \/ query.page > Len(pdf_processor.pages_data)
           THEN query.result = <<>>
           ELSE JoinedBySpace(query.result,
                              SpansNear(pdf_processor.pages_data[query.page],
                                        query.bbox, query.radius))

\* a call that takes a span exactly the radius away and leaves one out
C22_Witness ==
    /\ query.op = "get_context_around_position"
    /\ query.page \in DOMAIN pdf_processor.pages_data
    /\ query.radius = context_range
    /\ query.result = <<"A", "B", " ", "a", "b", " ", "x", " ", "SIGMA", "a">>
    /\ \E k \in DOMAIN pdf_processor.pages_data[query.page].text_blocks :
         TwiceApart(pdf_processor.pages_data[query.page].text_blocks[k].bbox, query.bbox)
             = 2 * context_range
    /\ \E k \in DOMAIN pdf_processor.pages_data[query.page].text_blocks :
         TwiceApart(pdf_processor.pages_data[query.page].text_blocks[k].bbox, query.bbox)
             > 2 * context_range

\* the calls that extract or query: every recorded call but the parse
ReadingCalls ==
    {"search_text_positions", "get_text_by_page", "get_context_around_position",
     "_find_text_position", "_parse_llm_response", "_extract_with_rules",
     "extract_information"}

\* C23: no step of an extraction or query call changes the document: the
\* page list the processor holds is the same after the step, and the list
\* extract_information works on is that list from entry to return.
C23_DocumentUnchanged ==
    [][query'.op \in ReadingCalls =>
          /\ pdf_processor'.pages_data = pdf_processor.pages_data
          /\ pc' = "loop" => pages_data' = pdf_processor.pages_data
          /\ pc = "loop" => pages_data' = pages_data]_vars

\* extract_information has returned items found in the stored document
C23_Witness ==
    /\ query.op = "extract_information"
    /\ pc = "idle"
    /\ query.result # <<>>
    /\ Len(pdf_processor.pages_data) > 1

\* the recorded call is a rule run with the arguments of the remembered one
SameRunAgain ==
    /\ query.op = "_extract_with_rules"
    /\ memo.op = "rules"
    /\ query.text = memo.text
    /\ query.category = memo.category
    /\ query.page_data = memo.page_data

InsideOneSpan(m, blocks) ==
    \E k \in DOMAIN blocks :
        /\ OffsetOf(blocks, k) <= m.start
        /\ m.end <= OffsetOf(blocks, k) + Len(blocks[k].text)

\* the spans of the page whose text contains the value
SpansWith(value, blocks) == {k \in DOMAIN blocks : Contains(blocks[k].text, value)}

\* C26: on a page the processor built (full_text is the span texts joined
\* by one space) every match of a numbers pattern lies inside one span, so
\* for every item of a numbers rule run some span contains the value and
\* the position is the centroid of the first such span.
C26_NumbersInsideOneSpan ==
    (query.op = "_extract_with_rules" /\ query.category = "numbers") =>
        LET blocks == query.page_data.text_blocks
        IN  /\ \A pattern \in {"percent", "amount", "code"} :
                 LET ms == FindIter(pattern, query.text, 0)
                 IN  \A i \in DOMAIN ms : InsideOneSpan(ms[i], blocks)
            /\ \A i \in DOMAIN query.result :
                 LET with == SpansWith(query.result[i].value.s, blocks)
                 IN  /\ with # {}
                     /\ query.result[i].position
                            = Centroid(blocks[CHOOSE k \in with : \A j \in with : k <= j].bbox)

\* a numbers run on the page whose neighbouring spans are runs of digits
C26_Witness ==
    /\ query.op = "_extract_with_rules"
    /\ query.category = "numbers"
    /\ \E k \in DOMAIN query.page_data.text_blocks :
         /\ k > 1
         /\ IsDigits(query.page_data.text_blocks[k].text)
         /\ IsDigits(query.page_data.text_blocks[k - 1].text)
    /\ Len(query.result) = 4

\* the Locator found a span: some span of its page contains the value
LocatorFound ==
    /\ query.op = "_find_text_position"
    /\ SpansWith(query.text, query.page_data.text_blocks) # {}

\* the entries search_text_positions gives for the Locator's value on the
\* Locator's page
SearchEntries ==
    LET found == search_text_positions(pdf_processor, query.text)
    IN  {i \in DOMAIN found : found[i].page = query.page}

\* C28: when the Locator finds a span for a value on a page of the stored
\* document, search_text_positions for that value has an entry for that
\* page whose position is the Locator's result.
C28_SearchCoversLocator ==
    LocatorFound =>
        \E i \in SearchEntries :
            LET e == search_text_positions(pdf_processor, query.text)[i]
            IN  <<e.position.x, e.position.y>> = query.result

\* the same for a value without a sigma
C28_WithoutSigma ==
    (\A k \in DOMAIN query.text : Letter(query.text[k]) # "sigma") => C28_SearchCoversLocator

\* a state that refutes the converse: the search has an entry for the page
\* although no span contains the value in the case it was given
C28_ConverseFails ==
    /\ query.op = "_find_text_position"
    /\ SearchEntries # {}
    /\ ~LocatorFound

\* every 200 response of /api/extract carries the items of the pages of
\* the file its own request names
C27_OwnPages ==
    \A t \in DOMAIN threads.of :
        LET local == threads.of[t]
        IN  (local.at = "responded" /\ local.kind = "extract" /\ local.status = 200) =>
                local.items = extract_information(PagesFrom(local.doc, 0), local.query_types)

\* the processor holds nothing or the whole page list of one document
C27_NeverMixed ==
    \/ pdf_processor.pages_data = <<>>
    \/ \E doc \in ConcDocs : pdf_processor.pages_data = PagesFrom(doc, 0)

\* the documents whose parse has returned, or has stored its list and is
\* about to return
ParsedDocs ==
    threads.parsed
        \cup {threads.of[t].doc : t \in {u \in DOMAIN threads.of :
                                            /\ threads.of[u].at = "close"
                                            /\ threads.of[u].fault.at # "close"}}

\* C27: under every interleaving of uploads and extractions on the shared
\* processor, every /api/extract response carries only items of the pages
\* of the file named in its request, and the processor's pages_data is
\* empty or the complete page list of one successfully parsed document.
C27_IsolatedAndWhole ==
    /\ C27_OwnPages
    /\ \/ pdf_processor.pages_data = <<>>
       \/ \E doc \in ParsedDocs : pdf_processor.pages_data = PagesFrom(doc, 0)

\* two requests for different documents in the parser at the same time,
\* one of them answered with its own items while the processor holds the
\* pages of the other
C27_Interleaved ==
    \E t, u \in DOMAIN threads.of :
        /\ threads.of[t].at = "responded"
        /\ threads.of[t].kind = "extract"
        /\ threads.of[t].items # <<>>
        /\ threads.of[u].at = "close"
        /\ threads.of[u].doc # threads.of[t].doc
        /\ pdf_processor.pages_data = threads.of[u].pages
        /\ pdf_processor.current_doc = Opened(threads.of[t].doc)

Unset(manager) == manager.model = "None" /\ manager.tokenizer = "None"
BothSet(manager) == manager.model # "None" /\ manager.tokenizer # "None"

HasBrackets(toks) ==
    \E i, j \in DOMAIN toks : i < j /\ toks[i].k = "[" /\ toks[j].k = "]"

\* the text from the first "[" to the next "]" is a JSON array
BracketsParse(toks) ==
    LET i == FirstTok(toks, "[", 0)
        j == FirstTok(toks, "]", i + 1)
    IN  json_loads(Slice(toks, i, j + 1)).ok

\* C30: extract_information_local never raises; it returns [] without
\* reaching the model when model_loaded is false, and [] when generation
\* fails, when the reply has no bracketed array and when the array does not
\* parse; generate_response raises whenever model_loaded is false.
C30_LocalExtractionNeverRaises ==
    /\ local_call.op = "extract_information_local" =>
          /\ local_call.exc = ""
          /\ ~local_call.before.model_loaded =>
                 local_call.result = <<>> /\ ~local_call.invoked
          /\ local_call.outcome.kind = "raises" => local_call.result = <<>>
          /\ (local_call.outcome.kind = "reply" /\ ~HasBrackets(local_call.outcome.text)) =>
                 local_call.result = <<>>
          /\ (/\ local_call.outcome.kind = "reply"
              /\ HasBrackets(local_call.outcome.text)
              /\ ~BracketsParse(local_call.outcome.text)) =>
                 local_call.result = <<>>
    /\ (local_call.op = "generate_response" /\ ~local_call.before.model_loaded) =>
          local_call.exc # "" /\ ~local_call.invoked

\* the loaded model failed during generation and the call returned []
C30_Witness ==
    /\ local_call.op = "extract_information_local"
    /\ local_call.before.model_loaded
    /\ local_call.outcome.kind = "raises"
    /\ local_call.invoked
    /\ local_call.exc = ""
    /\ local_call.result = <<>>

\* the loaded model answered with an array inside an array: nothing parsed
C30_NestedArray ==
    /\ local_call.op = "extract_information_local"
    /\ local_call.before.model_loaded
    /\ local_call.outcome.kind = "reply"
    /\ HasBrackets(local_call.outcome.text)
    /\ ~BracketsParse(local_call.outcome.text)
    /\ SearchArray(local_call.outcome.text).found
    /\ json_loads(SearchArray(local_call.outcome.text).str).ok

\* a reply that yields items
C30_Items ==
    /\ local_call.op = "extract_information_local"
    /\ local_call.result # <<>>


====
